---- MODULE Spec2Model ----
(***************************************************************************)
(* Contrast-You: the staged ContrastTrainer, the training and inference    *)
(* epochers, the hooks, main.worker, and the data and model utilities they *)
(* use.                                                                    *)
(*                                                                         *)
(* Several specifications share the module, one per component:             *)
(*   SpecTrainer       ContrastTrainer.start_training                      *)
(*   SpecEpocher       TrainEpocher._run                                   *)
(*   SpecEpocherFair   TrainEpocher._run, run to its end                   *)
(*   SpecWorker        main.worker with create_hook_from_config            *)
(*   SpecInference     InferenceEpocher._run                               *)
(*   SpecMixin         _PretrainTrainerMixin._start_training               *)
(*   SpecHooks         the consistency and discrete-MI epoch hooks         *)
(*   SpecContrast      the pretraining epochers' _run                      *)
(*   SpecTrainEpochers every training epocher's _run                       *)
(*   SpecCapture       _DiscreteMIEpochHook                                *)
(*   SpecSplit         split_dataset                                       *)
(*   SpecBn            disable_tracking_bn_stats                           *)
(***************************************************************************)
EXTENDS Integers, Sequences, FiniteSets, TLC

\* ------------------------------------------------------------------ bounds
\* largest max_epoch_train_* value and largest restored epoch counter
MaxEpoch == 2
\* largest num_batches / loader length of one epoch
MaxBatches == 2
\* largest number of images in the labeled / unlabeled part of a batch
MaxSize == 2
\* largest number of distinct scans of a dataset
MaxScans == 3
\* largest number of modules of a model
MaxModules == 3

VARIABLES
    \* ---- ContrastTrainer
    pc,                     \* position inside start_training
    error,                  \* exception that left start_training, or "none"
    checkpoint,             \* TRUE: start_training got a resume path
    loadable,               \* per stage subdirectory: does load_state_dict_from_path succeed
    max_epoch,              \* per stage: _max_epoch_train_{encoder,decoder,finetune}
    num_batches,            \* Trainer._num_batches
    is_master,              \* the process is the master of its data-parallel group
    train_encoder, train_decoder,            \* registered buffers (configuration)
    train_encoder_done, train_decoder_done,  \* registered buffers (completion flags)
    start_epoch, cur_epoch, \* Trainer._start_epoch, Trainer._cur_epoch
    it,                     \* next value of the running range(...) iterator
    checkpoint_already_load,\* the local of start_training: "unbound" or "True"
    enc_grad, dec_grad,     \* requires_grad of the encoder / decoder parameters
    disk,                   \* per stage subdirectory of save_dir: the last.pth written there
    saves,                  \* per stage subdirectory: number of last.pth writes
    started,                \* per stage: epochs whose loop body was entered
    completed,              \* per stage: epochs whose Epocher run returned
    storage,                \* per result Storage: number of epoch results put
    log,                    \* history: stage loops entered / epochs begun, in order
    finished,               \* history: per stage, its *_run method returned
    loadFailed,             \* history: per stage, a load of its checkpoint raised
    afterFail,              \* history: epoch loops entered / epochs begun after a load failed
    raisedAt                \* history: the pc at which the exception was raised, or "none"

trainerVars == <<pc, error, checkpoint, loadable, max_epoch, num_batches, is_master,
                 train_encoder, train_decoder, train_encoder_done, train_decoder_done,
                 start_epoch, cur_epoch, it, checkpoint_already_load, enc_grad, dec_grad,
                 disk, saves, started, completed, storage, log, finished, loadFailed,
                 afterFail, raisedAt>>

VARIABLES
    \* ---- TrainEpocher._run
    e_pc,                   \* "new", "idle", "loop", "done" or "raised"
    e_error,                \* exception that left _run, or "none"
    epocher_class,          \* the class of the epocher: TrainEpocher or a subclass
    e_num_batches,          \* length of the indicator, tqdm(range(num_batches))
    feature_position,       \* the feature_position argument of __init__
    feature_importance,     \* the feature_importance argument of __init__
    labeled_len,            \* batches the labeled loader yields
    unlabeled_len,          \* batches the unlabeled loader yields
    on_master,              \* value of self.on_master()
    detect_anomaly,         \* torch.autograd.set_detect_anomaly(True) is in force
    reg_weight,             \* self._reg_weight, set by init(reg_weight=...)
    e_i,                    \* batches taken from the zip so far
    opt_steps,              \* optimizer.step() calls applied
    meters,                 \* per meter: number of add() calls
    losses,                 \* last batch: sup_loss, reg_loss and the loss backward ran on
    seeds_used,             \* last batch: <<site, seed>> for the draw and every seeded use
    batch_trace,            \* last batch: the steps taken, in order
    ema_updates,            \* calls of the EMA updater on the teacher
    teacher_ver,            \* optimizer steps the student had taken at the last EMA update
    nanSeen,                \* history: a batch had a NaN supervised loss
    nanStepApplied,         \* history: the optimizer step of a NaN batch was applied
    afterNan                \* history: batches processed after a NaN batch

epocherVars == <<e_pc, e_error, epocher_class, e_num_batches, feature_position,
                 feature_importance, labeled_len, unlabeled_len, on_master, detect_anomaly,
                 reg_weight, e_i, opt_steps, meters, losses, seeds_used, batch_trace, ema_updates, teacher_ver,
                 nanSeen, nanStepApplied, afterNan>>

\* what the constructor receives and never changes
epocherArgs == <<epocher_class, e_num_batches, feature_position, feature_importance,
                 labeled_len, unlabeled_len, on_master, detect_anomaly, reg_weight>>

VARIABLES
    \* ---- main.worker
    w_pc,                   \* "hooks", "register", "init", "resume", "train", "returned", "raised"
    w_error,                \* exception that left worker, or "none"
    trainer_name,           \* config["Trainer"]["name"]
    config,                 \* the hook blocks present in the configuration
    w_checkpoint,           \* find_checkpoint found a last.pth in the save folder
    hooks,                  \* the hook list of worker
    model4inference,        \* teacher models handed to trainer.set_model4inference
    registered,             \* hooks registered with the trainer
    init_called,            \* trainer.init() was called
    resumed,                \* trainer.resume_from_path() was called
    training_started        \* trainer.start_training() was called

workerVars == <<w_pc, w_error, trainer_name, config, w_checkpoint, hooks, model4inference,
                registered, init_called, resumed, training_started>>

VARIABLES
    \* ---- InferenceEpocher._run
    i_pc,                   \* "idle", "loop", "done" or "raised"
    i_error,                \* exception that left _run, or "none"
    val_len,                \* batches of the validation loader (= num_batches)
    save_dir_set,           \* InferenceEpocher.init(save_dir=...) was called
    i_i,                    \* batches taken from the zip so far
    i_meters,               \* per meter: number of completed add() calls
    i_written,              \* files written by write_img_target / write_predict
    hd_ignored,             \* RuntimeErrors of the hd meter that were swallowed
    i_fault                 \* history: where the last batch raised and what

inferenceVars == <<i_pc, i_error, val_len, save_dir_set, i_i, i_meters, i_written,
                   hd_ignored, i_fault>>

VARIABLES
    \* ---- _PretrainTrainerMixin._start_training (trainers/pretrain.py, trainers/_helper.py)
    m_pc,                   \* "start", "train", "loop", "done" or "raised"
    m_error,                \* exception that left _start_training, or "none"
    mixin,                  \* which of the two mixins: "pretrain" or "_helper"
    m_start_epoch,          \* self._start_epoch
    m_cur_epoch,            \* self._cur_epoch
    m_max_epoch,            \* self._max_epoch
    m_on_master,            \* value of self.on_master()
    initialized_grad,       \* _helper: enable_grad(...) was called
    has_scheduler,          \* hasattr(self, "_scheduler")
    m_checkpoint,           \* the checkpoint to resume from: exists, cur_epoch
    m_resumed,              \* the checkpoint was loaded
    m_it,                   \* next value of the range(...) iterator
    m_ran,                  \* the epochs run, in order
    m_saves,                \* last.pth writes
    m_puts,                 \* epoch results added to the storage
    scheduler_steps         \* scheduler.step() calls

mixinVars == <<m_pc, m_error, mixin, m_start_epoch, m_cur_epoch, m_max_epoch, m_on_master,
               initialized_grad, has_scheduler, m_checkpoint, m_resumed, m_it, m_ran,
               m_saves, m_puts, scheduler_steps>>

VARIABLES
    \* ---- epocher hooks (hooks/consistency.py, hooks/discretemi.py)
    h_pc,                   \* "configure" or "run"
    hook_kind,              \* per hook: the EpocherHook class
    hook_name,              \* per hook: its hook name
    hook_weight,            \* per hook: its weight
    h_meters,               \* the meter registry: per key, registered and the values added
    h_configured,           \* hooks whose meters were configured
    h_batch,                \* batches in which every hook was called
    h_next,                 \* the hook the batch calls next
    h_calls,                \* per hook: number of calls
    h_last                  \* last call: the hook, the value it recorded, the value returned

hookVars == <<h_pc, hook_kind, hook_name, hook_weight, h_meters, h_configured, h_batch,
              h_next, h_calls, h_last>>

VARIABLES
    \* ---- PretrainEncoderEpoch._run, PretrainDecoderEpoch._run (contrast_epocher.py)
    c_pc,                   \* "idle", "loop", "done" or "raised"
    c_error,                \* exception that left _run, or "none"
    c_class,                \* PretrainEncoderEpoch or PretrainDecoderEpoch
    c_num_batches,          \* length of the indicator
    c_loader_len,           \* batches the pretrain loader yields
    c_detect_anomaly,       \* torch.autograd.set_detect_anomaly(True) is in force
    c_i,                    \* batches taken from the zip so far
    c_opt_steps,            \* optimizer.step() calls applied
    c_meters,               \* per meter: number of add() calls
    c_report,               \* the local report_dict: "unbound" or "bound"
    c_trace,                \* last batch: the steps taken, in order
    c_nan                   \* history of NaN losses: seen, stepped, recorded, batches after

contrastVars == <<c_pc, c_error, c_class, c_num_batches, c_loader_len, c_detect_anomaly,
                  c_i, c_opt_steps, c_meters, c_report, c_trace, c_nan>>

\* what the constructor receives and never changes
contrastArgs == <<c_class, c_num_batches, c_loader_len, c_detect_anomaly>>

VARIABLES
    \* ---- _DiscreteMIEpochHook and its feature extractor (hooks/discretemi.py)
    f_pc,                   \* "before", "forward", "after", "call" or "closed"
    f_enabled,              \* the extractor captures forward activations
    f_buffer,               \* the capture buffer: one entry per image of a forward pass
    f_batch,                \* number of the current batch, 0 before the first
    f_nl, f_nunl,           \* images in the labeled / unlabeled part of the current batch
    f_others,               \* forward passes of the network outside the hook's window
    f_read,                 \* last call: what self._extractor.feature() returned
    f_selected,             \* last call: feature_, the slice the loss is computed on
    f_calls                 \* calls of the hook

captureVars == <<f_pc, f_enabled, f_buffer, f_batch, f_nl, f_nunl, f_others, f_read,
                 f_selected, f_calls>>

VARIABLES
    \* ---- split_dataset (semi_seg/data/creator.py)
    d_pc,                   \* "ready", "split" (one call returned), "again" or "raised"
    d_error,                \* exception that left split_dataset, or "none"
    d_scans,                \* the scan names of the dataset
    d_ratios,               \* the ratios, in quarters
    d_seed,                 \* the seed argument
    d_ambient,              \* state of the global numpy generator outside the call
    d_drawn,                \* what np.random.permutation returned, per generator state
    d_result,               \* first call: the scan sets of the sub-datasets returned
    d_again                 \* second call: the same

splitVars == <<d_pc, d_error, d_scans, d_ratios, d_seed, d_ambient, d_drawn, d_result,
               d_again>>

\* the arguments of the two calls
splitArgs == <<d_scans, d_ratios, d_seed>>

VARIABLES
    \* ---- disable_tracking_bn_stats (contrastyou/utils/utils.py)
    b_pc,                   \* "outside", "inside" (the with-body runs), "exited" or "raised"
    b_modules,              \* per module of the model: has track_running_stats, its value
    b_before                \* the modules when the context was entered

bnVars == <<b_pc, b_modules, b_before>>

vars == <<trainerVars, epocherVars, workerVars, inferenceVars, mixinVars, hookVars,
         contrastVars,
         captureVars,
         splitVars,
         bnVars>>

\* ------------------------------------------------------- ContrastTrainer
Stages == {"pretrain_encoder", "pretrain_decoder", "finetune"}
Storages == {"_pretrain_encoder_storage", "_pretrain_decoder_storage", "_finetune_storage"}

\* the buffers a checkpoint carries
Buffers == [train_encoder : BOOLEAN, train_decoder : BOOLEAN,
            train_encoder_done : BOOLEAN, train_decoder_done : BOOLEAN,
            cur_epoch : 0..MaxEpoch]

NoFile == [exists |-> FALSE, train_encoder |-> FALSE, train_decoder |-> FALSE,
           train_encoder_done |-> FALSE, train_decoder_done |-> FALSE, cur_epoch |-> 0]

\* state_dict(): the registered buffers and the epoch counter at the time of saving
StateDict == [exists |-> TRUE, train_encoder |-> train_encoder, train_decoder |-> train_decoder,
              train_encoder_done |-> train_encoder_done,
              train_decoder_done |-> train_decoder_done, cur_epoch |-> cur_epoch]

\* ---- Epocher constructors (contrast_epocher.py)
\* module-level name the constructor checks feature_extractor against
UNetFeatureExtractor == "None"

\* isinstance(obj, cls): a TypeError when cls is no type, else the membership test
IsInstance(obj, cls) ==
    IF cls = "None" THEN "TypeError"
    ELSE IF obj = cls THEN "True" ELSE "False"

\* PretrainEncoderEpoch.__init__: "ok" or the exception the argument checks raise
PretrainEncoderEpochInit(nb, group_option, feature_extractor) ==
    IF ~(nb > 0) THEN "AssertionError"
    ELSE IF group_option \notin {"partition", "patient", "both"} THEN "AssertionError"
    ELSE LET t == IsInstance(feature_extractor, UNetFeatureExtractor) IN
         IF t = "TypeError" THEN "TypeError"
         ELSE IF t = "False" THEN "AssertionError"
         ELSE "ok"

\* PretrainDecoderEpoch.__init__: the encoder constructor with group_option "both"
PretrainDecoderEpochInit(nb, feature_extractor) ==
    PretrainEncoderEpochInit(nb, "both", feature_extractor)

\* the Epocher construction of one epoch, with the arguments the trainer passes:
\* group_option and feature_extractor are left at their default None
ConstructEpocher(stage, nb) ==
    CASE stage = "pretrain_encoder" -> PretrainEncoderEpochInit(nb, "None", "None")
      [] stage = "pretrain_decoder" -> PretrainDecoderEpochInit(nb, "None")
      [] OTHER -> "ok"

\* ---- start_training
\* mutant: the encoder's except clause prints like the other two
OnLoadFailure_AllPrint(stage) == "print"

\* what the except clause of a stage's checkpoint load does
OnLoadFailure(stage) ==
    IF stage = "pretrain_encoder" THEN "raise" ELSE "print"

\* mutant: the done flag is not consulted
ShouldRun_IgnoreDone(done) == TRUE

\* `if not self.train_encoder_done:` / `if not self.train_decoder_done:`
ShouldRun(done) == ~done

\* mutant: finetune is placed before the decoder stage
StageAfter_FinetuneFirst(stage) ==
    CASE stage = "pretrain_encoder" -> "ft_start"
      [] stage = "pretrain_decoder" -> "done"
      [] OTHER -> "dec_start"

\* the position reached once a stage is over (or skipped)
StageAfter(stage) ==
    CASE stage = "pretrain_encoder" -> "dec_start"
      [] stage = "pretrain_decoder" -> "ft_start"
      [] OTHER -> "done"

\* the Storage an epoch result of the stage is put into
StorageOf(stage) ==
    CASE stage = "pretrain_encoder" -> "_pretrain_encoder_storage"
      [] stage = "pretrain_decoder" -> "_pretrain_encoder_storage"
      [] OTHER -> "_finetune_storage"

\* mutant: every stage saves into the encoder's subdirectory
SaveDirOf_Encoder(stage) == "pretrain_encoder"

\* the subdirectory of save_dir a stage's epoch loop saves last.pth to
SaveDirOf(stage) == stage

\* mutant: a stage enables the gradients of its own part and disables nothing
GradFlags_EnableOnly(stage) ==
    CASE stage = "pretrain_encoder" -> [encoder |-> TRUE, decoder |-> dec_grad]
      [] stage = "pretrain_decoder" -> [encoder |-> enc_grad, decoder |-> TRUE]
      [] OTHER -> [encoder |-> TRUE, decoder |-> TRUE]

\* requires_grad of the encoder and decoder parameters after the enable_grad_* /
\* disable_grad_* calls at the head of the stage's *_run method
GradFlags(stage) ==
    CASE stage = "pretrain_encoder" -> [encoder |-> TRUE, decoder |-> FALSE]
      [] stage = "pretrain_decoder" -> [encoder |-> FALSE, decoder |-> TRUE]
      [] OTHER -> [encoder |-> TRUE, decoder |-> TRUE]

LoopPc(stage) ==
    CASE stage = "pretrain_encoder" -> "enc_loop"
      [] stage = "pretrain_decoder" -> "dec_loop"
      [] OTHER -> "ft_loop"

MaxEpochOf(stage) == max_epoch[stage]

cfgVars == <<checkpoint, loadable, max_epoch, num_batches, is_master>>
bufVars == <<train_encoder, train_decoder, train_encoder_done, train_decoder_done>>
outVars == <<disk, saves, started, completed, storage>>

Raise(e) ==
    /\ pc' = "raised"
    /\ error' = e
    /\ raisedAt' = pc

\* load_state_dict: every registered buffer and the epoch counter are restored; the
\* stage loop resumes at the restored epoch
Restore(r) ==
    /\ train_encoder' = r.train_encoder
    /\ train_decoder' = r.train_decoder
    /\ train_encoder_done' = r.train_encoder_done
    /\ train_decoder_done' = r.train_decoder_done
    /\ cur_epoch' = r.cur_epoch
    /\ start_epoch' = r.cur_epoch

\* the arguments of ContrastTrainer(...) and start_training(checkpoint), and what the
\* resume path holds
TrainerInputs ==
    /\ checkpoint \in BOOLEAN
    /\ loadable \in [Stages -> BOOLEAN]
    /\ max_epoch \in [Stages -> 0..MaxEpoch]
    /\ num_batches \in {0, 1}
    /\ is_master \in BOOLEAN
    /\ train_encoder \in BOOLEAN
    /\ train_decoder \in BOOLEAN

\* the trainer after __init__
TrainerConstructed ==
    /\ pc = "start"
    /\ error = "none"
    /\ train_encoder_done = FALSE
    /\ train_decoder_done = FALSE
    /\ start_epoch = 0
    /\ cur_epoch = 0
    /\ it = 0
    /\ checkpoint_already_load = "unbound"
    /\ enc_grad = TRUE
    /\ dec_grad = TRUE
    /\ disk = [s \in Stages |-> NoFile]
    /\ saves = [s \in Stages |-> 0]
    /\ started = [s \in Stages |-> 0]
    /\ completed = [s \in Stages |-> 0]
    /\ storage = [s \in Storages |-> 0]
    /\ log = <<>>
    /\ finished = [s \in Stages |-> FALSE]
    /\ loadFailed = [s \in Stages |-> FALSE]
    /\ afterFail = 0
    /\ raisedAt = "none"

AnyLoadFailed == \E s \in Stages : loadFailed[s]

\* lines 161-170: the encoder stage up to the decision to run it
StartEncoder ==
    /\ UNCHANGED <<epocherVars, workerVars, inferenceVars, mixinVars, hookVars, contrastVars, captureVars, splitVars, bnVars>>
    /\ pc = "start"
    /\ UNCHANGED <<cfgVars, outVars, it, checkpoint_already_load, enc_grad, dec_grad,
                   log, finished, afterFail>>
    /\ IF ~train_encoder
       THEN /\ pc' = StageAfter("pretrain_encoder")
            /\ UNCHANGED <<error, raisedAt, bufVars, start_epoch, cur_epoch, loadFailed>>
       ELSE IF ~checkpoint
       THEN /\ pc' = IF ShouldRun(train_encoder_done)
                     THEN "enc_run" ELSE StageAfter("pretrain_encoder")
            /\ UNCHANGED <<error, raisedAt, bufVars, start_epoch, cur_epoch, loadFailed>>
       ELSE IF ~loadable["pretrain_encoder"]
       THEN /\ loadFailed' = [loadFailed EXCEPT !["pretrain_encoder"] = TRUE]
            /\ UNCHANGED <<bufVars, start_epoch, cur_epoch>>
            /\ IF OnLoadFailure("pretrain_encoder") = "raise"
               THEN Raise("RuntimeError")
               ELSE /\ pc' = IF ShouldRun(train_encoder_done)
                             THEN "enc_run" ELSE StageAfter("pretrain_encoder")
                    /\ UNCHANGED <<error, raisedAt>>
       ELSE \E r \in Buffers :
            /\ Restore(r)
            /\ pc' = IF ShouldRun(r.train_encoder_done)
                     THEN "enc_run" ELSE StageAfter("pretrain_encoder")
            /\ UNCHANGED <<error, raisedAt, loadFailed>>

\* lines 171-180: the decoder stage up to the decision to run it
StartDecoder ==
    /\ UNCHANGED <<epocherVars, workerVars, inferenceVars, mixinVars, hookVars, contrastVars, captureVars, splitVars, bnVars>>
    /\ pc = "dec_start"
    /\ UNCHANGED <<cfgVars, outVars, it, enc_grad, dec_grad, log, finished, afterFail>>
    /\ IF ~train_decoder
       THEN /\ pc' = StageAfter("pretrain_decoder")
            /\ UNCHANGED <<error, raisedAt, bufVars, start_epoch, cur_epoch, loadFailed,
                           checkpoint_already_load>>
       ELSE IF ~checkpoint
       THEN /\ pc' = IF ShouldRun(train_decoder_done)
                     THEN "dec_run" ELSE StageAfter("pretrain_decoder")
            /\ UNCHANGED <<error, raisedAt, bufVars, start_epoch, cur_epoch, loadFailed,
                           checkpoint_already_load>>
       ELSE IF ~loadable["pretrain_decoder"]
       THEN /\ loadFailed' = [loadFailed EXCEPT !["pretrain_decoder"] = TRUE]
            /\ UNCHANGED <<bufVars, start_epoch, cur_epoch, checkpoint_already_load>>
            /\ IF OnLoadFailure("pretrain_decoder") = "raise"
               THEN Raise("RuntimeError")
               ELSE /\ pc' = IF ShouldRun(train_decoder_done)
                             THEN "dec_run" ELSE StageAfter("pretrain_decoder")
                    /\ UNCHANGED <<error, raisedAt>>
       ELSE \E r \in Buffers :
            /\ Restore(r)
            /\ checkpoint_already_load' = "True"
            /\ pc' = IF ShouldRun(r.train_decoder_done)
                     THEN "dec_run" ELSE StageAfter("pretrain_decoder")
            /\ UNCHANGED <<error, raisedAt, loadFailed>>

\* lines 181-186: finetune_network_init and the finetune checkpoint load
StartFinetune ==
    /\ UNCHANGED <<epocherVars, workerVars, inferenceVars, mixinVars, hookVars, contrastVars, captureVars, splitVars, bnVars>>
    /\ pc = "ft_start"
    /\ UNCHANGED <<cfgVars, outVars, it, enc_grad, dec_grad, log, finished, afterFail,
                   checkpoint_already_load>>
    /\ IF ~checkpoint
       THEN /\ pc' = "ft_run"
            /\ UNCHANGED <<error, raisedAt, bufVars, start_epoch, cur_epoch, loadFailed>>
       ELSE IF checkpoint_already_load = "unbound"
       THEN \* reading the unassigned local
            /\ Raise("UnboundLocalError")
            /\ UNCHANGED <<bufVars, start_epoch, cur_epoch, loadFailed>>
       ELSE IF checkpoint_already_load = "True"
       THEN /\ pc' = "ft_run"
            /\ UNCHANGED <<error, raisedAt, bufVars, start_epoch, cur_epoch, loadFailed>>
       ELSE IF ~loadable["finetune"]
       THEN /\ loadFailed' = [loadFailed EXCEPT !["finetune"] = TRUE]
            /\ UNCHANGED <<bufVars, start_epoch, cur_epoch>>
            /\ IF OnLoadFailure("finetune") = "raise"
               THEN Raise("RuntimeError")
               ELSE /\ pc' = "ft_run"
                    /\ UNCHANGED <<error, raisedAt>>
       ELSE \E r \in Buffers :
            /\ Restore(r)
            /\ pc' = "ft_run"
            /\ UNCHANGED <<error, raisedAt, loadFailed>>

\* what Epocher(...).run() of one epoch does: it returns, or an error of a batch leaves it
RunOutcomes == {"ok", "RuntimeError"}

StateDictAt(epoch) == [StateDict EXCEPT !.cur_epoch = epoch]

\* entering a stage's *_run method: requires_grad flags, then range(_start_epoch, max)
RunBegin(stage, from, egrad, dgrad) ==
    /\ pc = from
    /\ pc' = LoopPc(stage)
    /\ enc_grad' = egrad
    /\ dec_grad' = dgrad
    /\ it' = start_epoch
    /\ log' = Append(log, <<stage, "run">>)
    /\ UNCHANGED <<error, raisedAt, cfgVars, bufVars, outVars, start_epoch, cur_epoch,
                   checkpoint_already_load, finished, loadFailed, afterFail>>

\* one iteration of a stage's epoch loop: Epocher construction, run, Storage put,
\* checkpoint write
Epoch(stage) ==
    /\ pc = LoopPc(stage)
    /\ it < MaxEpochOf(stage)
    /\ cur_epoch' = it
    /\ it' = it + 1
    /\ started' = [started EXCEPT ![stage] = @ + 1]
    /\ log' = Append(log, <<stage, "epoch">>)
    /\ afterFail' = IF AnyLoadFailed THEN afterFail + 1 ELSE afterFail
    /\ UNCHANGED <<cfgVars, bufVars, start_epoch, checkpoint_already_load, enc_grad,
                   dec_grad, finished, loadFailed>>
    /\ LET c == ConstructEpocher(stage, num_batches) IN
       IF c # "ok"
       THEN /\ Raise(c)
            /\ UNCHANGED <<disk, saves, completed, storage>>
       ELSE \E o \in RunOutcomes :
            IF o # "ok"
            THEN /\ Raise(o)
                 /\ UNCHANGED <<disk, saves, completed, storage>>
            ELSE /\ completed' = [completed EXCEPT ![stage] = @ + 1]
                 /\ storage' = [storage EXCEPT ![StorageOf(stage)] = @ + 1]
                 /\ disk' = [disk EXCEPT ![SaveDirOf(stage)] = StateDictAt(it)]
                 /\ saves' = [saves EXCEPT ![SaveDirOf(stage)] = @ + 1]
                 /\ UNCHANGED <<pc, error, raisedAt>>

\* the loop of a stage is exhausted: the statement after it, then back in start_training
RunEnd(stage) ==
    /\ pc = LoopPc(stage)
    /\ it >= MaxEpochOf(stage)
    /\ pc' = StageAfter(stage)
    /\ finished' = [finished EXCEPT ![stage] = TRUE]
    /\ train_encoder_done' = IF stage = "pretrain_encoder" THEN TRUE ELSE train_encoder_done
    /\ train_decoder_done' = IF stage = "pretrain_decoder" THEN TRUE ELSE train_decoder_done
    /\ UNCHANGED <<error, raisedAt, cfgVars, train_encoder, train_decoder, outVars,
                   start_epoch, cur_epoch, it, checkpoint_already_load, enc_grad, dec_grad,
                   log, loadFailed, afterFail>>

PretrainEncoderRunBegin ==
    /\ RunBegin("pretrain_encoder", "enc_run", GradFlags("pretrain_encoder").encoder,
                GradFlags("pretrain_encoder").decoder)
    /\ UNCHANGED <<epocherVars, workerVars, inferenceVars, mixinVars, hookVars, contrastVars, captureVars, splitVars, bnVars>>
PretrainEncoderEpoch ==
    /\ Epoch("pretrain_encoder")
    /\ UNCHANGED <<epocherVars, workerVars, inferenceVars, mixinVars, hookVars, contrastVars, captureVars, splitVars, bnVars>>
PretrainEncoderRunEnd ==
    /\ RunEnd("pretrain_encoder")
    /\ UNCHANGED <<epocherVars, workerVars, inferenceVars, mixinVars, hookVars, contrastVars, captureVars, splitVars, bnVars>>

PretrainDecoderRunBegin ==
    /\ RunBegin("pretrain_decoder", "dec_run", GradFlags("pretrain_decoder").encoder,
                GradFlags("pretrain_decoder").decoder)
    /\ UNCHANGED <<epocherVars, workerVars, inferenceVars, mixinVars, hookVars, contrastVars, captureVars, splitVars, bnVars>>
PretrainDecoderEpoch ==
    /\ Epoch("pretrain_decoder")
    /\ UNCHANGED <<epocherVars, workerVars, inferenceVars, mixinVars, hookVars, contrastVars, captureVars, splitVars, bnVars>>
PretrainDecoderRunEnd ==
    /\ RunEnd("pretrain_decoder")
    /\ UNCHANGED <<epocherVars, workerVars, inferenceVars, mixinVars, hookVars, contrastVars, captureVars, splitVars, bnVars>>

FinetuneRunBegin ==
    /\ RunBegin("finetune", "ft_run", GradFlags("finetune").encoder,
                GradFlags("finetune").decoder)
    /\ UNCHANGED <<epocherVars, workerVars, inferenceVars, mixinVars, hookVars, contrastVars, captureVars, splitVars, bnVars>>
FinetuneEpoch ==
    /\ Epoch("finetune")
    /\ UNCHANGED <<epocherVars, workerVars, inferenceVars, mixinVars, hookVars, contrastVars, captureVars, splitVars, bnVars>>
FinetuneRunEnd ==
    /\ RunEnd("finetune")
    /\ UNCHANGED <<epocherVars, workerVars, inferenceVars, mixinVars, hookVars, contrastVars, captureVars, splitVars, bnVars>>

NextTrainer ==
    \/ StartEncoder
    \/ PretrainEncoderRunBegin
    \/ PretrainEncoderEpoch
    \/ PretrainEncoderRunEnd
    \/ StartDecoder
    \/ PretrainDecoderRunBegin
    \/ PretrainDecoderEpoch
    \/ PretrainDecoderRunEnd
    \/ StartFinetune
    \/ FinetuneRunBegin
    \/ FinetuneEpoch
    \/ FinetuneRunEnd

\* ------------------------------------------------ claims on start_training
InLog(e) == \E i \in DOMAIN log : log[i] = e

Rank(stage) ==
    CASE stage = "pretrain_encoder" -> 0
      [] stage = "pretrain_decoder" -> 1
      [] OTHER -> 2

Terminated == pc \in {"done", "raised"}

\* C1: the stages run in the order encoder, decoder, finetune: no loop entry and no
\* epoch of a stage comes after a loop entry or an epoch of a later stage.
C1_StageOrder ==
    \A i, j \in DOMAIN log : i < j => Rank(log[i][1]) <= Rank(log[j][1])

C1_Witness ==
    /\ InLog(<<"pretrain_encoder", "run">>)
    /\ InLog(<<"pretrain_decoder", "run">>)
    /\ InLog(<<"finetune", "epoch">>)

\* C2: leaving a pretraining stage's guard without an exception, the stage's epoch loop
\* is entered exactly when the stage is enabled and its done flag is false after the
\* checkpoint load; a loop is entered only through its guard and an epoch begins only
\* inside its loop, so a disabled or done stage runs zero epochs.
C2_StageGuard ==
    [][ /\ (pc = "start" /\ pc' # "raised") =>
              ((pc' = "enc_run") <=> (train_encoder /\ ~train_encoder_done'))
        /\ (pc = "dec_start" /\ pc' # "raised") =>
              ((pc' = "dec_run") <=> (train_decoder /\ ~train_decoder_done'))
        /\ (pc' = "enc_loop" /\ pc # "enc_loop") => pc = "enc_run"
        /\ (pc' = "dec_loop" /\ pc # "dec_loop") => pc = "dec_run"
        /\ (pc' = "enc_run") => pc = "start"
        /\ (pc' = "dec_run") => pc = "dec_start"
        /\ started'["pretrain_encoder"] # started["pretrain_encoder"] => pc = "enc_loop"
        /\ started'["pretrain_decoder"] # started["pretrain_decoder"] => pc = "dec_loop"
      ]_vars

\* the encoder stage is enabled, its checkpoint marks it done, it is skipped and the
\* decoder loop is entered
C2_Witness ==
    /\ checkpoint
    /\ train_encoder_done
    /\ ~finished["pretrain_encoder"]
    /\ ~InLog(<<"pretrain_encoder", "run">>)
    /\ InLog(<<"pretrain_decoder", "run">>)

\* C3: once the load of the pretrain_encoder checkpoint has failed, start_training has
\* raised a RuntimeError and no loop was entered and no epoch of any stage begun.
C3_EncoderLoadFatal ==
    loadFailed["pretrain_encoder"] =>
        /\ pc = "raised"
        /\ error = "RuntimeError"
        /\ log = <<>>
        /\ \A s \in Stages : started[s] = 0

C3_Witness ==
    /\ checkpoint
    /\ loadFailed["pretrain_encoder"]
    /\ pc = "raised"

\* C4: when the load of the pretrain_decoder checkpoint has failed, start_training ends
\* with the error raised at that load, and no epoch is begun after the failure.
C4_DecoderLoadFatal ==
    (loadFailed["pretrain_decoder"] /\ Terminated) =>
        /\ pc = "raised"
        /\ raisedAt = "dec_start"
        /\ afterFail = 0

\* C5: with a resume path and a finetune checkpoint that cannot be loaded, no exception
\* leaves the finetune checkpoint handling (lines 181-186): start_training goes on to
\* the finetune epochs, whatever the decoder stage did.
C5_FinetuneLoadTolerated ==
    (checkpoint /\ ~loadable["finetune"]) => ~(pc = "raised" /\ raisedAt = "ft_start")

\* C6: once a pretraining stage has run all its epochs, the checkpoint in its
\* subdirectory records the stage's done flag as true.
C6_DoneFlagPersisted ==
    /\ finished["pretrain_encoder"] =>
          (disk["pretrain_encoder"].exists /\ disk["pretrain_encoder"].train_encoder_done)
    /\ finished["pretrain_decoder"] =>
          (disk["pretrain_decoder"].exists /\ disk["pretrain_decoder"].train_decoder_done)

\* C7: in every stage the number of last.pth writes into the stage's own subdirectory
\* equals the number of its completed epochs, at every point between two epochs, and
\* the file there is the one written after the last completed epoch (epochs run
\* consecutively from _start_epoch).
C7_CheckpointPerEpoch ==
    \A s \in Stages :
        /\ saves[s] = completed[s]
        /\ completed[s] > 0 =>
              (disk[s].exists /\ disk[s].cur_epoch = start_epoch + completed[s] - 1)
        /\ completed[s] = 0 => ~disk[s].exists

C7_Witness ==
    /\ completed["finetune"] = 2
    /\ saves["finetune"] = 2
    /\ pc = "ft_loop"

\* C13: whenever an epoch of the encoder pretraining stage begins, and while that
\* stage's loop is running, the encoder gradients are enabled and the decoder gradients
\* disabled; for the decoder pretraining stage the decoder gradients are enabled and
\* the encoder gradients disabled, whatever the earlier stage left behind.
C13_GradFlagsPerStage ==
    [][ /\ (started'["pretrain_encoder"] # started["pretrain_encoder"] \/ pc' = "enc_loop")
              => (enc_grad' /\ ~dec_grad' /\ (pc = "enc_loop" => (enc_grad /\ ~dec_grad)))
        /\ (started'["pretrain_decoder"] # started["pretrain_decoder"] \/ pc' = "dec_loop")
              => (dec_grad' /\ ~enc_grad' /\ (pc = "dec_loop" => (dec_grad /\ ~enc_grad)))
      ]_vars

\* the encoder stage has run (leaving encoder on, decoder off) and an epoch of the
\* decoder stage was begun with the flags the other way round
C13_Witness ==
    /\ finished["pretrain_encoder"]
    /\ started["pretrain_decoder"] > 0
    /\ dec_grad
    /\ ~enc_grad

\* the result Storage created for a stage in __init__, lines 56-58
OwnStorage(stage) ==
    CASE stage = "pretrain_encoder" -> "_pretrain_encoder_storage"
      [] stage = "pretrain_decoder" -> "_pretrain_decoder_storage"
      [] OTHER -> "_finetune_storage"

C27_EpocherChecksPass ==
    \A s \in {"pretrain_encoder", "pretrain_decoder"} :
        ~(/\ pc = "raised"
          /\ raisedAt = LoopPc(s)
          /\ error \in {"AssertionError", "TypeError"})

EpocherClasses == {"TrainEpocher", "MeanTeacherEpocher", "EntropyMinEpocher"}

\* the meters of _configure_meters; "entropy" is registered by EntropyMinEpocher
Meters == {"lr", "sup_loss", "reg_loss", "sup_dice", "entropy"}

\* values random.randint may return
Seeds == {0, 1}

Min(a, b) == IF a < b THEN a ELSE b

\* the length of a loader over an InfiniteRandomSampler (creator.py:73-79): it yields
\* more batches than any indicator asks for
Infinite == MaxBatches + 1

\* batches a loader may yield: a finite loader, or one that never ends
LoaderLens == 0..MaxBatches \cup {Infinite}

\* mutant: the indicator does not bound the loop
ZipLen_LoadersOnly == Min(labeled_len, unlabeled_len)

\* number of triples zip(self._indicator, labeled_loader, unlabeled_loader) yields
ZipLen == Min(e_num_batches, Min(labeled_len, unlabeled_len))

Add(m, name) == [m EXCEPT ![name] = @ + 1]

\* ---- __init__
\* lengths of the feature lists that are tried
FeatureLens == {0, 1, 2}

\* a constructor argument as far as __init__ looks at it: None, or a list with its
\* length and the type of its first element
NoneArg == [is_list |-> FALSE, len |-> 0, first |-> "none"]

ListArgs(types) ==
    {[is_list |-> TRUE, len |-> 0, first |-> "none"]} \cup
    [is_list : {TRUE}, len : FeatureLens \ {0}, first : types]

\* `isinstance(a, list) and isinstance(a[0], types)`: a[0] of an empty list raises
ListOf(a, types) ==
    IF ~a.is_list THEN "False"
    ELSE IF a.len = 0 THEN "IndexError"
    ELSE IF a.first \in types THEN "True" ELSE "False"

\* the two assert statements of TrainEpocher.__init__, lines 109-111: "ok" or the
\* exception that leaves the constructor
TrainEpocherInit(fp, fi) ==
    LET p == ListOf(fp, {"str"}) IN
    IF p = "IndexError" THEN "IndexError"
    ELSE IF p = "False" THEN "AssertionError"
    ELSE LET w == ListOf(fi, {"int", "float"}) IN
         IF w = "IndexError" THEN "IndexError"
         ELSE IF w = "False" THEN "AssertionError"
         ELSE "ok"

\* values of reg_weight that are tried
RegWeights == {0, 2}

\* values of the supervised loss that are tried
SupValues == {1, 2}

\* values regularization(...) may return: the base class returns 0 (base.py:189-190)
RegValues ==
    IF epocher_class = "TrainEpocher" THEN {0} ELSE {0, 1}

NoLosses == [nan |-> FALSE, sup |-> 0, reg |-> 0, backward |-> 0]

\* mutant: the regularization term is left out of the loss
TotalLoss_SupOnly(sup, reg, w) == sup

\* line 167: total_loss = sup_loss + self._reg_weight * reg_loss
TotalLoss(sup, reg, w) == sup + w * reg

EpocherInputs ==
    /\ epocher_class \in EpocherClasses
    /\ e_num_batches \in 0..MaxBatches
    /\ feature_position \in {NoneArg} \cup ListArgs({"str", "int"})
    /\ feature_importance \in {NoneArg} \cup ListArgs({"float", "str"})
    /\ labeled_len \in LoaderLens
    /\ unlabeled_len \in LoaderLens
    /\ on_master \in BOOLEAN
    /\ detect_anomaly \in BOOLEAN
    /\ reg_weight \in RegWeights

\* the epocher before the body of __init__ has run
EpocherNew ==
    /\ e_pc = "new"
    /\ e_error = "none"
    /\ e_i = 0
    /\ opt_steps = 0
    /\ meters = [m \in Meters |-> 0]
    /\ losses = NoLosses
    /\ seeds_used = {}
    /\ batch_trace = <<>>
    /\ ema_updates = 0
    /\ teacher_ver = 0
    /\ nanSeen = FALSE
    /\ nanStepApplied = FALSE
    /\ afterNan = 0

\* lines 100-113: TrainEpocher(...)
EpocherInit ==
    /\ UNCHANGED <<trainerVars, workerVars, inferenceVars, mixinVars, hookVars, contrastVars, captureVars, splitVars, bnVars>>
    /\ e_pc = "new"
    /\ LET c == TrainEpocherInit(feature_position, feature_importance) IN
       IF c = "ok"
       THEN /\ e_pc' = "idle"
            /\ UNCHANGED e_error
       ELSE /\ e_pc' = "raised"
            /\ e_error' = c
    /\ UNCHANGED <<epocherArgs, e_i, opt_steps, meters, losses, seeds_used, batch_trace,
                   ema_updates, teacher_ver, nanSeen, nanStepApplied, afterNan>>

\* lines 128-132: the lr meter, train mode, the FeatureExtractor context
EpocherBegin ==
    /\ UNCHANGED <<trainerVars, workerVars, inferenceVars, mixinVars, hookVars, contrastVars, captureVars, splitVars, bnVars>>
    /\ e_pc = "idle"
    /\ e_pc' = "loop"
    /\ meters' = Add(meters, "lr")
    /\ UNCHANGED <<e_error, epocherArgs, e_i, opt_steps, losses, seeds_used, batch_trace,
                   ema_updates, teacher_ver, nanSeen, nanStepApplied, afterNan>>

\* the meter updates of one batch, lines 173-180
RecordBatch(m) ==
    IF on_master THEN Add(Add(Add(m, "sup_loss"), "sup_dice"), "reg_loss") ELSE m

\* total_loss.backward(): with anomaly detection on (main.py:110), the backward pass of
\* a NaN loss raises a RuntimeError; otherwise backward returns
Backward(lossNaN) ==
    IF detect_anomaly /\ lossNaN THEN "RuntimeError" ELSE "ok"

\* mutant: the transform of the student logits runs under another seed
SeedAt_LogitsRedrawn(site, seed) ==
    IF site = "logits" THEN 1 - seed ELSE seed

\* the seed a seeded step of the batch runs under, given the seed it was handed:
\* FixRandomSeed(seed) at base.py:140 ("image") and :151 ("logits"), seed=seed at :163
\* ("regularization"), FixRandomSeed(seed) at comparable.py:43 ("teacher")
SeedAt(site, seed) == seed

\* the seeded steps of one batch whose seed was drawn as s
SeedsOfBatch(s) ==
    {<<"draw", s>>,
     <<"image", SeedAt("image", s)>>,
     <<"logits", SeedAt("logits", s)>>,
     <<"regularization", SeedAt("regularization", s)>>}
    \cup IF epocher_class = "MeanTeacherEpocher"
         THEN {<<"teacher", SeedAt("teacher", SeedAt("regularization", s))>>}
         ELSE {}

\* the steps of regularization(...) of the class, in order
RegularizationTrace ==
    CASE epocher_class = "MeanTeacherEpocher" ->
             <<"teacher_forward", "teacher_transform", "reg_criterion", "ema_update">>
      [] epocher_class = "EntropyMinEpocher" -> <<"entropy_criterion", "entropy_meter">>
      [] OTHER -> <<>>

\* the steps of one batch, lines 134-180, in order; stepped: backward returned
BatchTrace(stepped) ==
    <<"seed", "image_transform", "forward", "logits_transform", "sup_loss">>
    \o RegularizationTrace
    \o <<"total_loss", "zero_grad", "backward">>
    \o (IF stepped THEN <<"step">> ELSE <<>>)
    \o (IF stepped /\ on_master THEN <<"meters">> ELSE <<>>)

\* the meter updates made inside regularization (comparable.py:191)
RegularizationMeters(m) ==
    IF epocher_class = "EntropyMinEpocher" THEN Add(m, "entropy") ELSE m

\* the class updates an EMA teacher inside regularization (comparable.py:50)
HasTeacher == epocher_class = "MeanTeacherEpocher"

\* lines 133-180: one batch; s: the seed drawn, supNaN: the supervised loss is NaN,
\* sup and reg: the values of the two losses
Batch ==
    /\ UNCHANGED <<trainerVars, workerVars, inferenceVars, mixinVars, hookVars, contrastVars, captureVars, splitVars, bnVars>>
    /\ e_pc = "loop"
    /\ e_i < ZipLen
    /\ e_i' = e_i + 1
    /\ afterNan' = IF nanSeen THEN afterNan + 1 ELSE afterNan
    /\ UNCHANGED epocherArgs
    /\ \E s \in Seeds, supNaN \in BOOLEAN, sup \in SupValues, reg \in RegValues :
         /\ seeds_used' = SeedsOfBatch(s)
         /\ losses' = IF supNaN
                       THEN [NoLosses EXCEPT !.nan = TRUE]
                       ELSE [nan |-> FALSE, sup |-> sup, reg |-> reg,
                             backward |-> TotalLoss(sup, reg, reg_weight)]
         /\ ema_updates' = IF HasTeacher THEN ema_updates + 1 ELSE ema_updates
         /\ teacher_ver' = IF HasTeacher THEN opt_steps ELSE teacher_ver
         /\ nanSeen' = (nanSeen \/ supNaN)
         /\ IF Backward(supNaN) # "ok"
            THEN /\ e_pc' = "raised"
                 /\ e_error' = Backward(supNaN)
                 /\ batch_trace' = BatchTrace(FALSE)
                 /\ meters' = RegularizationMeters(meters)
                 /\ UNCHANGED <<opt_steps, nanStepApplied>>
            ELSE /\ opt_steps' = opt_steps + 1
                 /\ nanStepApplied' = (nanStepApplied \/ supNaN)
                 /\ batch_trace' = BatchTrace(TRUE)
                 /\ meters' = RecordBatch(RegularizationMeters(meters))
                 /\ UNCHANGED <<e_pc, e_error>>

\* line 181: the zip is exhausted, report_dict is returned
EpocherEnd ==
    /\ UNCHANGED <<trainerVars, workerVars, inferenceVars, mixinVars, hookVars, contrastVars, captureVars, splitVars, bnVars>>
    /\ e_pc = "loop"
    /\ e_i >= ZipLen
    /\ e_pc' = "done"
    /\ UNCHANGED <<e_error, epocherArgs, e_i, opt_steps, meters, losses, seeds_used,
                   batch_trace, ema_updates, teacher_ver, nanSeen, nanStepApplied, afterNan>>

NextEpocher ==
    \/ EpocherInit
    \/ EpocherBegin
    \/ Batch
    \/ EpocherEnd

\* C8: a batch with a NaN supervised loss ends _run with a RuntimeError: its optimizer
\* step is not applied and no batch is processed after it.
C8_NaNAborts ==
    nanSeen =>
        /\ e_pc = "raised"
        /\ e_error = "RuntimeError"
        /\ ~nanStepApplied
        /\ afterNan = 0

\* C11: a TrainEpocher given feature_position and feature_importance lists of different
\* lengths does not get out of its constructor: an exception leaves __init__ and no
\* batch is processed.
C11_MismatchFailsFast ==
    (/\ feature_position.is_list
     /\ feature_importance.is_list
     /\ feature_position.len # feature_importance.len
     /\ e_pc # "new") =>
        (e_pc = "raised" /\ e_i = 0 /\ opt_steps = 0)

Pos(step, trace) ==
    IF \E i \in DOMAIN trace : trace[i] = step
    THEN CHOOSE i \in DOMAIN trace : trace[i] = step
    ELSE 0

\* C14: in the mean-teacher epocher the EMA teacher is updated once per batch, and in
\* a batch the update comes after the student's optimizer step of that batch: the
\* teacher has then seen the weights that step produced.
C14_EmaAfterStep ==
    epocher_class = "MeanTeacherEpocher" =>
        /\ ema_updates = e_i
        /\ Pos("step", batch_trace) > 0 =>
              /\ Pos("ema_update", batch_trace) > Pos("step", batch_trace)
              /\ teacher_ver = opt_steps

\* C21: an epoch never takes more than min(num_batches, labeled batches, unlabeled
\* batches) batches, it returns having taken exactly that many, and every epoch ends
\* (it returns, or an error of a batch leaves it): with two infinite loaders it
\* returns after num_batches batches.
C21_ExactBatchCount ==
    /\ [](e_i <= e_num_batches /\ e_i <= labeled_len /\ e_i <= unlabeled_len)
    /\ [](e_pc = "done" =>
            \/ e_i = e_num_batches
            \/ (e_i = labeled_len /\ labeled_len # Infinite)
            \/ (e_i = unlabeled_len /\ unlabeled_len # Infinite))
    /\ <>(e_pc \in {"done", "raised"})

\* both loaders are infinite and the epoch has returned after num_batches batches
C21_Witness ==
    /\ labeled_len = Infinite
    /\ unlabeled_len = Infinite
    /\ e_num_batches = 2
    /\ e_pc = "done"
    /\ e_i = 2
    /\ opt_steps = 2

\* C19: on a process that is not the master no meter is changed during the epoch.
C19_MetersOnlyOnMaster ==
    ~on_master => \A m \in Meters : meters[m] = 0

\* ------------------------------------------------- InferenceEpocher._run
InferenceMeters == {"loss", "dice", "hd"}

\* the statements of one batch, lines 80-94, in order
BatchSteps == <<"unzip_data", "forward", "write_img_target", "write_predict",
                "class2one_hot", "sup_criterion", "loss_meter", "dice_meter",
                "hd_meter", "tracking_status">>

\* what a statement may raise
Exceptions == {"RuntimeError", "ValueError", "AssertionError"}

NoFault == [step |-> "none", exc |-> "none"]

\* the faults of one batch: none, or one statement raising one exception
Faults == {NoFault} \cup [step : {BatchSteps[k] : k \in DOMAIN BatchSteps}, exc : Exceptions]

StepIndex(step) == CHOOSE k \in DOMAIN BatchSteps : BatchSteps[k] = step

\* mutant: the context manager ignores every exception
Ignores_Any(exc) == TRUE

\* `with ExceptionIgnorer(RuntimeError):` (line 91): the exceptions it swallows
Ignores(exc) == exc = "RuntimeError"

\* the statements inside the `with ExceptionIgnorer` block (line 92)
InsideIgnorer(step) == step = "hd_meter"

\* the fault of a batch as the loop body sees it: swallowed, or leaving _run
Swallowed(f) == f # NoFault /\ InsideIgnorer(f.step) /\ Ignores(f.exc)

\* the exception that leaves the loop body, or "none"; without init() the first write
\* finds no self._save_dir
Leaves(f) ==
    IF ~save_dir_set /\ (f = NoFault \/ StepIndex(f.step) >= StepIndex("write_img_target"))
    THEN [step |-> "write_img_target", exc |-> "AttributeError"]
    ELSE IF f = NoFault \/ Swallowed(f) THEN NoFault ELSE f

\* did the statement complete in a batch whose leaving fault is l and whose swallowed
\* fault (if any) is f
Completed(step, f, l) ==
    /\ l = NoFault \/ StepIndex(step) < StepIndex(l.step)
    /\ ~(Swallowed(f) /\ f.step = step)

InferenceInputs ==
    /\ val_len \in 0..MaxBatches
    /\ save_dir_set \in BOOLEAN

InferenceConstructed ==
    /\ i_pc = "idle"
    /\ i_error = "none"
    /\ i_i = 0
    /\ i_meters = [m \in InferenceMeters |-> 0]
    /\ i_written = 0
    /\ hd_ignored = 0
    /\ i_fault = NoFault

\* lines 76-78: eval mode, the assertion on it, the empty report
InferenceBegin ==
    /\ UNCHANGED <<trainerVars, epocherVars, workerVars, mixinVars, hookVars, contrastVars, captureVars, splitVars, bnVars>>
    /\ i_pc = "idle"
    /\ i_pc' = "loop"
    /\ UNCHANGED <<i_error, val_len, save_dir_set, i_i, i_meters, i_written, hd_ignored,
                   i_fault>>

Count(b) == IF b THEN 1 ELSE 0

\* lines 79-94: one batch, with the fault f
InferenceBatch ==
    /\ UNCHANGED <<trainerVars, epocherVars, workerVars, mixinVars, hookVars, contrastVars, captureVars, splitVars, bnVars>>
    /\ i_pc = "loop"
    /\ i_i < val_len
    /\ i_i' = i_i + 1
    /\ UNCHANGED <<val_len, save_dir_set>>
    /\ \E f \in Faults :
         LET l == Leaves(f) IN
         /\ i_fault' = IF l # NoFault THEN l ELSE f
         /\ i_written' = i_written + Count(Completed("write_img_target", f, l))
                                   + Count(Completed("write_predict", f, l))
         /\ i_meters' = [m \in InferenceMeters |->
                            i_meters[m] + Count(Completed(m \o "_meter", f, l))]
         /\ hd_ignored' = hd_ignored + Count(l = NoFault /\ Swallowed(f))
         /\ IF l # NoFault
            THEN /\ i_pc' = "raised"
                 /\ i_error' = l.exc
            ELSE UNCHANGED <<i_pc, i_error>>

\* line 95: the loop is exhausted, the report and the mean dice are returned
InferenceEnd ==
    /\ UNCHANGED <<trainerVars, epocherVars, workerVars, mixinVars, hookVars, contrastVars, captureVars, splitVars, bnVars>>
    /\ i_pc = "loop"
    /\ i_i >= val_len
    /\ i_pc' = "done"
    /\ UNCHANGED <<i_error, val_len, save_dir_set, i_i, i_meters, i_written, hd_ignored,
                   i_fault>>

NextInference ==
    \/ InferenceBegin
    \/ InferenceBatch
    \/ InferenceEnd

\* C15: a RuntimeError of the hd meter is swallowed: the batch still records loss and
\* dice, the loop goes on and _run returns only after every batch; any other
\* exception, and a RuntimeError of any other statement, leaves _run at once.
C15_OnlyHdRuntimeErrorSwallowed ==
    /\ (i_fault.step = "hd_meter" /\ i_fault.exc = "RuntimeError") =>
          /\ i_pc \in {"loop", "done"}
          /\ i_error = "none"
          /\ i_meters["loss"] = i_i
          /\ i_meters["dice"] = i_i
          /\ hd_ignored > 0
    /\ (i_fault # NoFault /\ ~(i_fault.step = "hd_meter" /\ i_fault.exc = "RuntimeError")) =>
          /\ i_pc = "raised"
          /\ i_error = i_fault.exc
    /\ i_pc = "raised" => i_fault # NoFault
    /\ i_pc = "done" =>
          /\ i_i = val_len
          /\ i_meters["loss"] = val_len
          /\ i_meters["dice"] = val_len
          /\ i_meters["hd"] + hd_ignored = val_len

\* the hd meter raised a RuntimeError in the first batch, the second batch was
\* processed in full and _run returned
C15_Witness ==
    /\ i_pc = "done"
    /\ val_len = 2
    /\ hd_ignored = 1
    /\ i_meters["hd"] = 1
    /\ i_meters["dice"] = 2
    /\ i_fault = NoFault

\* ------------------------------- _PretrainTrainerMixin._start_training
Mixins == {"pretrain", "_helper"}

NoCheckpoint == [exists |-> FALSE, cur_epoch |-> 0]

Max(a, b) == IF a > b THEN a ELSE b

\* the first value of the epoch range:
\* pretrain.py:56   start_epoch = max(self._cur_epoch + 1, self._start_epoch)
\* _helper.py:138   range(self._start_epoch, ...)
FirstEpoch(mx) ==
    IF mx = "pretrain" THEN Max(m_cur_epoch + 1, m_start_epoch) ELSE m_start_epoch

\* the end of the epoch range (exclusive):
\* pretrain.py:59   range(start_epoch, self._max_epoch + 1)
\* _helper.py:138   range(self._start_epoch, self._max_epoch)
StopEpoch(mx) ==
    IF mx = "pretrain" THEN m_max_epoch + 1 ELSE m_max_epoch

\* the write of last.pth is under `if self.on_master():` (pretrain.py:75, _helper.py:146)
WritesCheckpoint(mx) == m_on_master

MixinInputs ==
    /\ mixin \in Mixins
    /\ m_start_epoch \in {0, 1}
    /\ m_max_epoch \in 0..MaxEpoch
    /\ m_on_master \in BOOLEAN
    /\ initialized_grad \in BOOLEAN
    /\ has_scheduler \in BOOLEAN
    /\ m_checkpoint \in {NoCheckpoint} \cup [exists : {TRUE}, cur_epoch : 0..MaxEpoch]

MixinConstructed ==
    /\ m_pc = "start"
    /\ m_error = "none"
    /\ m_cur_epoch = 0
    /\ m_resumed = FALSE
    /\ m_it = 0
    /\ m_ran = <<>>
    /\ m_saves = 0
    /\ m_puts = 0
    /\ scheduler_steps = 0

mixinArgs == <<mixin, m_max_epoch, m_on_master, initialized_grad, has_scheduler,
               m_checkpoint>>

\* main.py:96-97, trainer.resume_from_path(checkpoint): the epoch counter is restored
\* as it was saved, and the loop start with it (as Restore does for ContrastTrainer);
\* without a checkpoint the trainer is left as constructed
MixinResume ==
    /\ UNCHANGED <<trainerVars, epocherVars, workerVars, inferenceVars, hookVars, contrastVars, captureVars, splitVars, bnVars>>
    /\ m_pc = "start"
    /\ m_pc' = "train"
    /\ IF m_checkpoint.exists
       THEN /\ m_cur_epoch' = m_checkpoint.cur_epoch
            /\ m_start_epoch' = m_checkpoint.cur_epoch
            /\ m_resumed' = TRUE
       ELSE UNCHANGED <<m_cur_epoch, m_start_epoch, m_resumed>>
    /\ UNCHANGED <<mixinArgs, m_error, m_it, m_ran, m_saves, m_puts, scheduler_steps>>

\* pretrain.py:56-59, _helper.py:137-138: up to the creation of the epoch range
MixinStartTraining ==
    /\ UNCHANGED <<trainerVars, epocherVars, workerVars, inferenceVars, hookVars, contrastVars, captureVars, splitVars, bnVars>>
    /\ m_pc = "train"
    /\ IF mixin = "_helper" /\ ~initialized_grad
       THEN /\ m_pc' = "raised"
            /\ m_error' = "AssertionError"
            /\ UNCHANGED m_it
       ELSE /\ m_pc' = "loop"
            /\ m_it' = FirstEpoch(mixin)
            /\ UNCHANGED m_error
    /\ UNCHANGED <<mixinArgs, m_start_epoch, m_cur_epoch, m_resumed, m_ran, m_saves,
                   m_puts, scheduler_steps>>

\* one iteration: pretrain.py:59-76, _helper.py:138-153
MixinEpoch ==
    /\ UNCHANGED <<trainerVars, epocherVars, workerVars, inferenceVars, hookVars, contrastVars, captureVars, splitVars, bnVars>>
    /\ m_pc = "loop"
    /\ m_it < StopEpoch(mixin)
    /\ m_cur_epoch' = m_it
    /\ m_it' = m_it + 1
    /\ m_ran' = Append(m_ran, m_it)
    /\ UNCHANGED <<mixinArgs, m_start_epoch, m_resumed>>
    /\ \E o \in RunOutcomes :
         IF o # "ok"
         THEN /\ m_pc' = "raised"
              /\ m_error' = o
              /\ UNCHANGED <<m_saves, m_puts, scheduler_steps>>
         ELSE /\ scheduler_steps' = IF has_scheduler THEN scheduler_steps + 1
                                    ELSE scheduler_steps
              /\ m_puts' = IF m_on_master THEN m_puts + 1 ELSE m_puts
              /\ m_saves' = IF WritesCheckpoint(mixin) THEN m_saves + 1 ELSE m_saves
              /\ UNCHANGED <<m_pc, m_error>>

\* the range is exhausted
MixinEnd ==
    /\ UNCHANGED <<trainerVars, epocherVars, workerVars, inferenceVars, hookVars, contrastVars, captureVars, splitVars, bnVars>>
    /\ m_pc = "loop"
    /\ m_it >= StopEpoch(mixin)
    /\ m_pc' = "done"
    /\ UNCHANGED <<mixinArgs, m_error, m_start_epoch, m_cur_epoch, m_resumed, m_it, m_ran,
                   m_saves, m_puts, scheduler_steps>>

NextMixin ==
    \/ MixinResume
    \/ MixinStartTraining
    \/ MixinEpoch
    \/ MixinEnd

\* C16: after a resume the first epoch the loop runs is the epoch the checkpoint was
\* saved at (that epoch is run again), the epochs run are consecutive, and none is
\* beyond the configured max epoch.
C16_ResumeFromLastEpoch ==
    (m_resumed /\ Len(m_ran) > 0) =>
        /\ m_ran[1] = m_checkpoint.cur_epoch
        /\ \A k \in DOMAIN m_ran : m_ran[k] = m_ran[1] + k - 1
        /\ \A k \in DOMAIN m_ran : m_ran[k] <= m_max_epoch

\* ---------------------------------------------------------- epocher hooks
\* the EpocherHook classes of consistency.py and discretemi.py
HookKinds == {"Consistency", "DiscreteMI", "DiscreteIMSAT"}

\* the hooks registered with one epocher
HookSlots == {1, 2}

HookNames == {"h1", "h2"}

\* hook weights that are tried
Weights == {0, 1, 2}

\* a class probability of the one pixel the inputs have, in tenths
Probs == {0, 10}

\* values of the clustering criteria (external losses)
CriterionValues == {1, 2}

\* the short names a hook registers: consistency.py:25, discretemi.py:90 and :145-146
ShortNames(kind) ==
    CASE kind = "Consistency" -> {"loss"}
      [] kind = "DiscreteMI" -> {"mi"}
      [] OTHER -> {"mi", "cons"}

\* the focus scopes there are: one per hook name, and the registry's own
Scopes == HookNames \cup {"default"}

MeterKeys == Scopes \X {"loss", "mi", "cons"}

\* mutant: the Consistency hook registers and records without a focus scope
ConsistencyFocus_None(name) == "default"

\* `with self.meters.focus_on(self._name):` of _ConsistencyEpocherHook (lines 24 and 31)
ConsistencyFocus(name) == name

\* the scope the EpocherHook base class puts configure_meters_given_epocher and
\* _call_implementation of its subclasses under: the hook's own name
BaseFocus(name) == name

\* the focus scope in force when the hook registers or records
HookFocus(k) ==
    IF hook_kind[k] = "Consistency" THEN ConsistencyFocus(hook_name[k])
    ELSE BaseFocus(hook_name[k])

\* the registry key of a short name under the focus scope of hook k
MeterKey(k, short) == <<HookFocus(k), short>>

\* register_meter for each key: a fresh accumulator under that key
Register(m, keys) ==
    [key \in MeterKeys |->
        IF key \in keys THEN [registered |-> TRUE, values |-> <<>>] ELSE m[key]]

\* meters[key].add(v)
Record(m, key, v) == [m EXCEPT ![key].values = Append(@, v)]

\* nn.MSELoss() of the two probability maps (one pixel, two classes), in hundredths
MSELoss(p, q) == ((p - q) * (p - q) + ((10 - p) - (10 - q)) * ((10 - p) - (10 - q))) \div 2

HookInputs ==
    /\ hook_kind \in [HookSlots -> HookKinds]
    /\ hook_name \in [HookSlots -> HookNames]
    /\ hook_weight \in [HookSlots -> Weights]

NoCall == [hook |-> 0, recorded |-> 0, returned |-> 0]

HooksConstructed ==
    /\ h_pc = "configure"
    /\ h_meters = [key \in MeterKeys |-> [registered |-> FALSE, values |-> <<>>]]
    /\ h_configured = 0
    /\ h_batch = 0
    /\ h_next = 1
    /\ h_calls = [k \in HookSlots |-> 0]
    /\ h_last = NoCall

\* configure_meters of the next hook (consistency.py:23-25, discretemi.py:89-90, 144-146)
HookConfigureMeters ==
    /\ UNCHANGED <<trainerVars, epocherVars, workerVars, inferenceVars, mixinVars, contrastVars, captureVars, splitVars, bnVars>>
    /\ h_pc = "configure"
    /\ LET k == h_configured + 1 IN
       /\ h_meters' = Register(h_meters, {MeterKey(k, sn) : sn \in ShortNames(hook_kind[k])})
       /\ h_configured' = k
       /\ h_pc' = IF k + 1 \in HookSlots THEN "configure" ELSE "run"
    /\ UNCHANGED <<hook_kind, hook_name, hook_weight, h_batch, h_next, h_calls, h_last>>

\* _ConsistencyEpocherHook.__call__ (consistency.py:27-33) on the probabilities p, q
ConsistencyCall(k, p, q) ==
    LET loss == MSELoss(q, p) IN
    [meters |-> Record(h_meters, MeterKey(k, "loss"), loss),
     recorded |-> loss,
     returned |-> hook_weight[k] * loss]

\* _DiscreteMIEpochHook._call_implementation (discretemi.py:99-113), criterion value v
DiscreteMICall(k, v) ==
    [meters |-> Record(h_meters, MeterKey(k, "mi"), v),
     recorded |-> v,
     returned |-> v * hook_weight[k]]

\* _DiscreteIMSATEpochHook._call_implementation (discretemi.py:148-167), criterion
\* value v and consistency value c; cons_weight is taken as 1
DiscreteIMSATCall(k, v, c) ==
    [meters |-> Record(Record(h_meters, MeterKey(k, "mi"), v), MeterKey(k, "cons"), c),
     recorded |-> v,
     returned |-> v * hook_weight[k] + c]

\* what a call of hook k can do, over the inputs of its class
CallResults(k) ==
    CASE hook_kind[k] = "Consistency" -> {ConsistencyCall(k, p, q) : p, q \in Probs}
      [] hook_kind[k] = "DiscreteMI" -> {DiscreteMICall(k, v) : v \in CriterionValues}
      [] OTHER -> {DiscreteIMSATCall(k, v, c) : v, c \in CriterionValues}

\* the next hook of the batch is called
HookCall ==
    /\ UNCHANGED <<trainerVars, epocherVars, workerVars, inferenceVars, mixinVars, contrastVars, captureVars, splitVars, bnVars>>
    /\ h_pc = "run"
    /\ h_batch < MaxBatches
    /\ LET k == h_next IN
       /\ \E r \in CallResults(k) :
            /\ h_meters' = r.meters
            /\ h_last' = [hook |-> k, recorded |-> r.recorded, returned |-> r.returned]
       /\ h_calls' = [h_calls EXCEPT ![k] = @ + 1]
       /\ h_next' = IF k + 1 \in HookSlots THEN k + 1 ELSE 1
       /\ h_batch' = IF k + 1 \in HookSlots THEN h_batch ELSE h_batch + 1
    /\ UNCHANGED <<h_pc, hook_kind, hook_name, hook_weight, h_configured>>

NextHooks ==
    \/ HookConfigureMeters
    \/ HookCall

C18_ZeroWeightZeroLoss ==
    (/\ h_last.hook \in HookSlots
     /\ hook_kind[h_last.hook] = "Consistency"
     /\ hook_weight[h_last.hook] = 0) =>
        (h_last.recorded = 0 /\ h_last.returned = 0)

\* ---------------------------------- main.worker and create_hook_from_config
\* the keys of trainer_zoo
TrainerZoo == {"semi", "ft", "pretrain", "mt", "dmt", "mixup"}

\* the configuration blocks create_hook_from_config looks for, in the order it does
HookOrder == <<"InfonceParams", "SPInfonceParams", "DiscreteMIConsistencyParams",
               "MeanTeacherParameters", "DifferentiableMeanTeacherParameters",
               "EntropyMinParameters", "OrthogonalParameters", "IIDSegParameters">>

HookKeys == {HookOrder[i] : i \in DOMAIN HookOrder}

\* mutant: the pretrain check of the MeanTeacherParameters block is missing
ForbiddenInPretrain_NoMT(key) ==
    key \in {"DiscreteMIConsistencyParams", "DifferentiableMeanTeacherParameters"}

\* the blocks whose branch raises RuntimeError under is_pretrain
ForbiddenInPretrain(key) ==
    key \in {"DiscreteMIConsistencyParams", "MeanTeacherParameters",
             "DifferentiableMeanTeacherParameters"}

\* the blocks whose hook's teacher_model is passed to trainer.set_model4inference
SetsModel4Inference(key) ==
    key \in {"MeanTeacherParameters", "DifferentiableMeanTeacherParameters"}

\* create_hook_from_config from the i-th block on; acc: the hooks appended and the
\* set_model4inference calls made so far
RECURSIVE CreateHooksFrom(_, _, _, _)
CreateHooksFrom(cfg, is_pretrain, i, acc) ==
    IF i > Len(HookOrder) THEN acc
    ELSE LET key == HookOrder[i] IN
         IF key \notin cfg THEN CreateHooksFrom(cfg, is_pretrain, i + 1, acc)
         ELSE IF is_pretrain /\ ForbiddenInPretrain(key)
         THEN [acc EXCEPT !.error = "RuntimeError"]
         ELSE CreateHooksFrom(cfg, is_pretrain, i + 1,
                  [hooks |-> Append(acc.hooks, key),
                   error |-> "none",
                   set4inf |-> IF SetsModel4Inference(key)
                               THEN acc.set4inf \cup {key} ELSE acc.set4inf])

create_hook_from_config(cfg, is_pretrain) ==
    CreateHooksFrom(cfg, is_pretrain, 1, [hooks |-> <<>>, error |-> "none", set4inf |-> {}])

\* mutant: only 'ft' skips the hook creation
SkipsHooks_OnlyFt(name) == name = "ft"

\* `trainer_name not in ("ft", "dmt")` negated
SkipsHooks(name) == name \in {"ft", "dmt"}

WorkerInputs ==
    /\ trainer_name \in TrainerZoo
    /\ config \in SUBSET HookKeys
    /\ w_checkpoint \in BOOLEAN

WorkerEntered ==
    /\ w_pc = "hooks"
    /\ w_error = "none"
    /\ hooks = <<>>
    /\ model4inference = {}
    /\ registered = 0
    /\ init_called = FALSE
    /\ resumed = FALSE
    /\ training_started = FALSE

\* lines 82-88: hook creation and the check that there is at least one hook
WorkerCreateHooks ==
    /\ UNCHANGED <<trainerVars, epocherVars, inferenceVars, mixinVars, hookVars, contrastVars, captureVars, splitVars, bnVars>>
    /\ w_pc = "hooks"
    /\ UNCHANGED <<trainer_name, config, w_checkpoint, registered, init_called, resumed,
                   training_started>>
    /\ IF SkipsHooks(trainer_name)
       THEN /\ hooks' = <<>>
            /\ w_pc' = "register"
            /\ UNCHANGED <<w_error, model4inference>>
       ELSE LET r == create_hook_from_config(config, trainer_name = "pretrain") IN
            /\ model4inference' = r.set4inf
            /\ IF r.error # "none"
               THEN /\ w_pc' = "raised"
                    /\ w_error' = r.error
                    /\ UNCHANGED hooks
               ELSE IF ~(Len(r.hooks) > 0)
               THEN /\ w_pc' = "raised"
                    /\ w_error' = "AssertionError"
                    /\ UNCHANGED hooks
               ELSE /\ hooks' = r.hooks
                    /\ w_pc' = "register"
                    /\ UNCHANGED w_error

\* line 90: trainer.register_hook(*hooks), or nullcontext() for 'ft' and 'dmt'
WorkerRegister ==
    /\ UNCHANGED <<trainerVars, epocherVars, inferenceVars, mixinVars, hookVars, contrastVars, captureVars, splitVars, bnVars>>
    /\ w_pc = "register"
    /\ w_pc' = "init"
    /\ registered' = IF SkipsHooks(trainer_name) THEN 0 ELSE Len(hooks)
    /\ UNCHANGED <<w_error, trainer_name, config, w_checkpoint, hooks, model4inference,
                   init_called, resumed, training_started>>

\* lines 95 and 100: trainer.init()
WorkerInit ==
    /\ UNCHANGED <<trainerVars, epocherVars, inferenceVars, mixinVars, hookVars, contrastVars, captureVars, splitVars, bnVars>>
    /\ w_pc = "init"
    /\ init_called' = TRUE
    /\ w_pc' = IF w_checkpoint THEN "resume" ELSE "train"
    /\ UNCHANGED <<w_error, trainer_name, config, w_checkpoint, hooks, model4inference,
                   registered, resumed, training_started>>

\* lines 96-97 and 101-102: trainer.resume_from_path(checkpoint)
WorkerResume ==
    /\ UNCHANGED <<trainerVars, epocherVars, inferenceVars, mixinVars, hookVars, contrastVars, captureVars, splitVars, bnVars>>
    /\ w_pc = "resume"
    /\ resumed' = TRUE
    /\ w_pc' = "train"
    /\ UNCHANGED <<w_error, trainer_name, config, w_checkpoint, hooks, model4inference,
                   registered, init_called, training_started>>

\* lines 98 and 103: trainer.start_training()
WorkerStartTraining ==
    /\ UNCHANGED <<trainerVars, epocherVars, inferenceVars, mixinVars, hookVars, contrastVars, captureVars, splitVars, bnVars>>
    /\ w_pc = "train"
    /\ training_started' = TRUE
    /\ w_pc' = "returned"
    /\ UNCHANGED <<w_error, trainer_name, config, w_checkpoint, hooks, model4inference,
                   registered, init_called, resumed>>

NextWorker ==
    \/ WorkerCreateHooks
    \/ WorkerRegister
    \/ WorkerInit
    \/ WorkerResume
    \/ WorkerStartTraining

InSeq(x, sq) == \E i \in DOMAIN sq : sq[i] = x

\* C9: create_hook_from_config with is_pretrain and a MeanTeacherParameters block ends
\* in a RuntimeError, with no mean-teacher hook appended and no set_model4inference
\* call made; in worker, the 'pretrain' trainer with such a configuration raises a
\* RuntimeError and neither trainer.init() nor start_training() is called.
C9_MeanTeacherInPretrain ==
    "MeanTeacherParameters" \in config =>
        /\ LET r == create_hook_from_config(config, TRUE) IN
             /\ r.error = "RuntimeError"
             /\ ~InSeq("MeanTeacherParameters", r.hooks)
             /\ r.set4inf = {}
        /\ (trainer_name = "pretrain" /\ w_pc # "hooks") =>
             /\ w_pc = "raised"
             /\ w_error = "RuntimeError"
             /\ hooks = <<>>
             /\ model4inference = {}
             /\ ~init_called
             /\ ~training_started

C9_Witness ==
    /\ trainer_name = "pretrain"
    /\ config = {"InfonceParams", "MeanTeacherParameters"}
    /\ w_pc = "raised"

NoHookBlock == config \cap HookKeys = {}

\* C10: 'ft' and 'dmt' skip hook creation, register zero hooks and go on to init and
\* start_training without an exception; every other trainer gets past hook creation
\* only with at least one hook, and with a configuration that yields no hook it ends
\* in an exception with neither trainer.init() nor start_training() called.
C10_EmptyHooksCarveOut ==
    /\ trainer_name \in {"ft", "dmt"} =>
          /\ w_pc # "raised"
          /\ hooks = <<>>
          /\ model4inference = {}
          /\ registered = 0
          /\ w_pc \in {"resume", "train", "returned"} => init_called
          /\ w_pc = "returned" => training_started
    /\ trainer_name \notin {"ft", "dmt"} =>
          /\ w_pc \notin {"hooks", "raised"} => Len(hooks) > 0
          /\ (NoHookBlock /\ w_pc # "hooks") =>
                (w_pc = "raised" /\ ~init_called /\ ~training_started)

C10_Witness ==
    /\ trainer_name = "dmt"
    /\ NoHookBlock
    /\ w_pc = "returned"
    /\ registered = 0
    /\ init_called
    /\ training_started

C10_WitnessOther ==
    /\ trainer_name = "semi"
    /\ NoHookBlock
    /\ w_pc = "raised"
    /\ w_error = "AssertionError"

\* ------------------------- PretrainEncoderEpoch._run, PretrainDecoderEpoch._run
ContrastClasses == {"PretrainEncoderEpoch", "PretrainDecoderEpoch"}

\* the meters of _configure_meters, lines 72-75
ContrastMeters == {"contrastive_loss", "lr"}

\* number of pairs zip(self._indicator, self._pretrain_*_loader) yields
ContrastZipLen == Min(c_num_batches, c_loader_len)

\* mutant: no epocher looks at the loss before the backward pass
ChecksNaN_Never(cls) == FALSE

\* lines 157-158: `if torch.isnan(contrastive_loss): raise RuntimeError(...)` is in
\* PretrainDecoderEpoch._run only
ChecksNaN(cls) == cls = "PretrainDecoderEpoch"

\* the steps of one batch up to the loss: lines 83-91 and 132-156
LossTrace(cls) ==
    IF cls = "PretrainDecoderEpoch"
    THEN <<"preprocess", "seed", "image_transform", "forward", "feature_transform",
           "projection", "contrastive_loss">>
    ELSE <<"preprocess", "forward", "projection", "contrastive_loss">>

\* what one batch does once its loss is known: the steps taken and the exception
\* that ends the batch, or "ok"
ContrastBatchOutcome(cls, lossNaN) ==
    IF ChecksNaN(cls) /\ lossNaN
    THEN [trace |-> LossTrace(cls) \o <<"nan_check">>, exc |-> "RuntimeError"]
    ELSE LET head == LossTrace(cls)
                     \o (IF ChecksNaN(cls) THEN <<"nan_check">> ELSE <<>>)
                     \o <<"zero_grad", "backward">> IN
         IF c_detect_anomaly /\ lossNaN
         THEN [trace |-> head, exc |-> "RuntimeError"]
         ELSE [trace |-> head \o <<"step", "meter">>, exc |-> "ok"]

NoNan == [seen |-> FALSE, stepped |-> FALSE, recorded |-> FALSE, after |-> 0]

\* the arguments of the constructor that passed its checks (num_batches > 0, line 39)
ContrastInputs ==
    /\ c_class \in ContrastClasses
    /\ c_num_batches \in 1..MaxBatches
    /\ c_loader_len \in LoaderLens
    /\ c_detect_anomaly \in BOOLEAN

\* the epocher after __init__
ContrastConstructed ==
    /\ c_pc = "idle"
    /\ c_error = "none"
    /\ c_i = 0
    /\ c_opt_steps = 0
    /\ c_meters = [m \in ContrastMeters |-> 0]
    /\ c_report = "unbound"
    /\ c_trace = <<>>
    /\ c_nan = NoNan

\* lines 78-80 / 127-129: train mode, the lr meter
ContrastBegin ==
    /\ UNCHANGED <<trainerVars, epocherVars, workerVars, inferenceVars, mixinVars, hookVars, captureVars, splitVars, bnVars>>
    /\ c_pc = "idle"
    /\ c_pc' = "loop"
    /\ c_meters' = [c_meters EXCEPT !["lr"] = @ + 1]
    /\ UNCHANGED <<c_error, contrastArgs, c_i, c_opt_steps, c_report, c_trace, c_nan>>

\* lines 82-99 / 131-166: one batch; lossNaN: the contrastive loss is NaN
ContrastBatch ==
    /\ UNCHANGED <<trainerVars, epocherVars, workerVars, inferenceVars, mixinVars, hookVars, captureVars, splitVars, bnVars>>
    /\ c_pc = "loop"
    /\ c_i < ContrastZipLen
    /\ c_i' = c_i + 1
    /\ UNCHANGED contrastArgs
    /\ \E lossNaN \in BOOLEAN :
         LET o == ContrastBatchOutcome(c_class, lossNaN)
             ok == o.exc = "ok" IN
         /\ c_trace' = o.trace
         /\ c_nan' = [seen |-> c_nan.seen \/ lossNaN,
                      stepped |-> c_nan.stepped \/ (lossNaN /\ ok),
                      recorded |-> c_nan.recorded \/ (lossNaN /\ ok),
                      after |-> IF c_nan.seen THEN c_nan.after + 1 ELSE c_nan.after]
         /\ IF ok
            THEN /\ c_opt_steps' = c_opt_steps + 1
                 /\ c_meters' = [c_meters EXCEPT !["contrastive_loss"] = @ + 1]
                 /\ c_report' = "bound"
                 /\ UNCHANGED <<c_pc, c_error>>
            ELSE /\ c_pc' = "raised"
                 /\ c_error' = o.exc
                 /\ UNCHANGED <<c_opt_steps, c_meters, c_report>>

\* lines 100 / 167: `return report_dict`, a local assigned inside the loop only
ContrastEnd ==
    /\ UNCHANGED <<trainerVars, epocherVars, workerVars, inferenceVars, mixinVars, hookVars, captureVars, splitVars, bnVars>>
    /\ c_pc = "loop"
    /\ c_i >= ContrastZipLen
    /\ IF c_report = "unbound"
       THEN /\ c_pc' = "raised"
            /\ c_error' = "UnboundLocalError"
       ELSE /\ c_pc' = "done"
            /\ UNCHANGED c_error
    /\ UNCHANGED <<contrastArgs, c_i, c_opt_steps, c_meters, c_report, c_trace, c_nan>>

NextContrast ==
    \/ ContrastBegin
    \/ ContrastBatch
    \/ ContrastEnd

\* C22: in PretrainDecoderEpoch._run a batch with a NaN contrastive loss ends _run
\* with a RuntimeError raised at the check of the loss: the batch takes no zero_grad,
\* backward or optimizer step, its loss is not added to the contrastive_loss meter
\* and no batch is processed after it.
C22_NaNRaisesBeforeStep ==
    (c_class = "PretrainDecoderEpoch" /\ c_nan.seen) =>
        /\ c_pc = "raised"
        /\ c_error = "RuntimeError"
        /\ c_trace[Len(c_trace)] = "nan_check"
        /\ \A k \in DOMAIN c_trace : c_trace[k] \notin {"zero_grad", "backward", "step", "meter"}
        /\ ~c_nan.stepped
        /\ ~c_nan.recorded
        /\ c_nan.after = 0
        /\ c_opt_steps = c_i - 1
        /\ c_meters["contrastive_loss"] = c_i - 1

\* the second batch of a decoder epoch has a NaN loss after a first batch that stepped
C22_Witness ==
    /\ c_class = "PretrainDecoderEpoch"
    /\ c_nan.seen
    /\ c_i = 2
    /\ c_opt_steps = 1
    /\ c_pc = "raised"

\* ------------------------------ _DiscreteMIEpochHook and its feature extractor
\* an entry of the capture buffer: the activation of one image, with the batch whose
\* forward pass produced it and the part of the network input the image was in;
\* batch 0 marks what an earlier epoch left in the extractor
Entries(b, part, n) == [k \in 1..n |-> [batch |-> b, part |-> part]]

\* the activations of the forward pass over torch.cat([labeled_image,
\* unlabeled_image, unlabeled_image_tf]) (base.py:145), along the batch dimension
ForwardEntries(b, nl, nunl) ==
    Entries(b, "labeled", nl) \o Entries(b, "unlabeled", nunl)
    \o Entries(b, "unlabeled_tf", nunl)

\* the forward hook of the extractor: an activation is appended while enabled
Capture(buf, enabled, entries) ==
    IF enabled THEN buf \o entries ELSE buf

\* mutant: before_forward_pass leaves the buffer as it is
BufferBeforeForward_Kept(buf) == buf

\* line 93: self._extractor.clear()
BufferBeforeForward(buf) == <<>>

\* seq[start:] as Python (and torch, along dimension 0) evaluates it: a negative start
\* counts from the end, and both are clipped to the sequence
SliceFrom(sq, start) ==
    LET n == Len(sq)
        from == IF start < 0 THEN Max(n + start, 0) ELSE Min(start, n) IN
    SubSeq(sq, from + 1, n)

\* lines 100-101 / 149-150: self._extractor.feature()[-n_unl * 2:]
FeatureSlice(feature, nunl) == SliceFrom(feature, -(nunl * 2))

\* what the extractor may hold when the epoch's hook binds it
StaleBuffers == {<<>>, Entries(0, "unlabeled", 1)}

CaptureInputs == f_buffer \in StaleBuffers

\* the hook after __init__ (lines 81-87): the extractor is bound and not enabled
CaptureConstructed ==
    /\ f_pc = "before"
    /\ f_enabled = FALSE
    /\ f_batch = 0
    /\ f_nl = 0
    /\ f_nunl = 0
    /\ f_others = 0
    /\ f_read = <<>>
    /\ f_selected = <<>>
    /\ f_calls = 0

\* lines 92-94: before_forward_pass of the next batch
BeforeForwardPass ==
    /\ UNCHANGED <<trainerVars, epocherVars, workerVars, inferenceVars, mixinVars, hookVars, contrastVars, splitVars, bnVars>>
    /\ f_pc = "before"
    /\ f_batch < MaxBatches
    /\ f_batch' = f_batch + 1
    /\ f_buffer' = BufferBeforeForward(f_buffer)
    /\ f_enabled' = TRUE
    /\ f_pc' = "forward"
    /\ f_others' = 0
    /\ UNCHANGED <<f_nl, f_nunl, f_read, f_selected, f_calls>>

\* the shared forward pass of the batch, with n_l labeled and n_unl unlabeled images
ForwardPass ==
    /\ UNCHANGED <<trainerVars, epocherVars, workerVars, inferenceVars, mixinVars, hookVars, contrastVars, splitVars, bnVars>>
    /\ f_pc = "forward"
    /\ \E nl \in 0..MaxSize, nunl \in 0..MaxSize :
         /\ f_nl' = nl
         /\ f_nunl' = nunl
         /\ f_buffer' = Capture(f_buffer, f_enabled, ForwardEntries(f_batch, nl, nunl))
    /\ f_pc' = "after"
    /\ UNCHANGED <<f_enabled, f_batch, f_others, f_read, f_selected, f_calls>>

\* lines 96-97: after_forward_pass
AfterForwardPass ==
    /\ UNCHANGED <<trainerVars, epocherVars, workerVars, inferenceVars, mixinVars, hookVars, contrastVars, splitVars, bnVars>>
    /\ f_pc = "after"
    /\ f_enabled' = FALSE
    /\ f_pc' = "call"
    /\ UNCHANGED <<f_buffer, f_batch, f_nl, f_nunl, f_others, f_read, f_selected, f_calls>>

\* a forward pass of the network that is not the batch's shared one (another hook's,
\* an evaluation), outside the window of before_ / after_forward_pass
OtherForwardPass ==
    /\ UNCHANGED <<trainerVars, epocherVars, workerVars, inferenceVars, mixinVars, hookVars, contrastVars, splitVars, bnVars>>
    /\ f_pc \in {"before", "call"}
    /\ f_others = 0
    /\ f_others' = 1
    /\ f_buffer' = Capture(f_buffer, f_enabled, Entries(f_batch, "other", 1))
    /\ UNCHANGED <<f_pc, f_enabled, f_batch, f_nl, f_nunl, f_read, f_selected, f_calls>>

\* lines 99-113 / 148-167: the hook is called for the batch
CallImplementation ==
    /\ UNCHANGED <<trainerVars, epocherVars, workerVars, inferenceVars, mixinVars, hookVars, contrastVars, splitVars, bnVars>>
    /\ f_pc = "call"
    /\ f_read' = f_buffer
    /\ f_selected' = FeatureSlice(f_buffer, f_nunl)
    /\ f_calls' = f_calls + 1
    /\ f_pc' = "before"
    /\ UNCHANGED <<f_enabled, f_buffer, f_batch, f_nl, f_nunl, f_others>>

\* lines 115-116: close() at the end of the epoch
CaptureClose ==
    /\ UNCHANGED <<trainerVars, epocherVars, workerVars, inferenceVars, mixinVars, hookVars, contrastVars, splitVars, bnVars>>
    /\ f_pc = "before"
    /\ f_pc' = "closed"
    /\ UNCHANGED <<f_enabled, f_buffer, f_batch, f_nl, f_nunl, f_others, f_read, f_selected,
                   f_calls>>

NextCapture ==
    \/ BeforeForwardPass
    \/ ForwardPass
    \/ AfterForwardPass
    \/ OtherForwardPass
    \/ CallImplementation
    \/ CaptureClose

LastEntries(sq, k) == SubSeq(sq, Len(sq) - k + 1, Len(sq))

\* C26: the slice the loss is computed on is exactly the last 2 * n_unl entries of
\* what the extractor returned, and none of them belongs to the labeled part.
C26_LastTwoNUnlEntries ==
    (f_calls > 0 /\ Len(f_read) >= 2 * f_nunl) =>
        /\ f_selected = LastEntries(f_read, 2 * f_nunl)
        /\ \A k \in DOMAIN f_selected : f_selected[k].part # "labeled"

\* ------------------------------------------------------------ split_dataset
\* ratios are multiples of a quarter: exact as floats
Quarters == 0..4

\* the ratio tuples that are tried: none, one or two ratios
RatioTuples == {<<>>} \cup {<<a>> : a \in Quarters} \cup {<<a, b>> : a, b \in Quarters}

\* states of the numpy generator that no seeding with a value of Seeds produces
AmbientStates == {2, 3}

RECURSIVE SumSeq(_)
SumSeq(sq) == IF sq = <<>> THEN 0 ELSE sq[1] + SumSeq(Tail(sq))

\* sorted(set(...)), line 31
RECURSIVE Sorted(_)
Sorted(S) ==
    IF S = {} THEN <<>>
    ELSE LET m == CHOOSE x \in S : \A y \in S : x <= y IN <<m>> \o Sorted(S \ {m})

\* the orders np.random.permutation may put n elements in
ScanOrders(n) ==
    {p \in [1..n -> 1..n] : \A i, j \in 1..n : p[i] = p[j] => i = j}

Permute(sq, p) == [i \in 1..Len(sq) |-> sq[p[i]]]

\* mutant: the permutation is drawn in the generator state the caller left
StateWithin_Ambient(seed, ambient) == ambient

\* the generator state np.random.permutation runs in: fix_all_seed_within_context(seed)
\* at line 32 seeds the generator (utils.py:153, 121-123)
StateWithin(seed, ambient) == seed

\* _sum_iter, lines 35-39: the running sums of the ratios
SumIter(ratios) == [i \in DOMAIN ratios |-> SumSeq(SubSeq(ratios, 1, i))]

\* line 48: int(len(scan_list) * x) for every running sum x, given in quarters
CuttingPoints(n, ratios) == [i \in DOMAIN ratios |-> (n * SumIter(ratios)[i]) \div 4]

\* mutant: the pair from the last cut to the end of the list is not produced
TwoElementIter_NoTail(cuts, n) ==
    [i \in 1..Len(cuts) |-> <<IF i = 1 THEN 0 ELSE cuts[i - 1], cuts[i]>>]

\* _two_element_iter, lines 41-46: (0, c1), (c1, c2), ..., (ck, len(scan_list))
TwoElementIter(cuts, n) ==
    [i \in 1..(Len(cuts) + 1) |->
        <<IF i = 1 THEN 0 ELSE cuts[i - 1], IF i <= Len(cuts) THEN cuts[i] ELSE n>>]

\* sq[x:y] for 0 <= x, 0 <= y
Slice(sq, x, y) == SubSeq(sq, x + 1, Min(y, Len(sq)))

\* extract_sub_dataset_based_on_scan_names: the sub-dataset of the scans named
SubDataset(names) == {names[i] : i \in DOMAIN names}

\* lines 31-51: the scan sets of the sub-datasets, for the permutation drawn
SubDatasets(scans, ratios, p) ==
    LET scan_list == Sorted(scans)
        scan_list_permuted == Permute(scan_list, p)
        pairs == TwoElementIter(CuttingPoints(Len(scan_list), ratios), Len(scan_list)) IN
    [i \in DOMAIN pairs |-> SubDataset(Slice(scan_list_permuted, pairs[i][1], pairs[i][2]))]

RECURSIVE SumLen(_)
SumLen(sets) ==
    IF sets = <<>> THEN 0 ELSE Cardinality(sets[1]) + SumLen(Tail(sets))

\* the two assert statements, lines 30 and 52: "ok" or the exception
SplitAsserts(scans, ratios, subs) ==
    IF ~(SumSeq(ratios) <= 4) THEN "AssertionError"
    ELSE IF SumLen(subs) # Cardinality(scans) THEN "AssertionError"
    ELSE "ok"

SplitInputs ==
    /\ d_scans \in SUBSET (1..MaxScans)
    /\ d_ratios \in RatioTuples
    /\ d_seed \in Seeds
    /\ d_ambient \in AmbientStates

SplitReady ==
    /\ d_pc = "ready"
    /\ d_error = "none"
    /\ d_drawn = <<>>
    /\ d_result = <<>>
    /\ d_again = <<>>

\* lines 29-53: split_dataset(dataset, *ratios, seed=seed)
SplitDataset ==
    /\ UNCHANGED <<trainerVars, epocherVars, workerVars, inferenceVars, mixinVars, hookVars, contrastVars, captureVars, bnVars>>
    /\ d_pc = "ready"
    /\ UNCHANGED <<splitArgs, d_ambient, d_again>>
    /\ \E p \in ScanOrders(Cardinality(d_scans)) :
         LET subs == SubDatasets(d_scans, d_ratios, p)
             a == SplitAsserts(d_scans, d_ratios, subs) IN
         IF a # "ok"
         THEN /\ d_pc' = "raised"
              /\ d_error' = a
              /\ UNCHANGED <<d_drawn, d_result>>
         ELSE /\ d_pc' = "split"
              /\ d_drawn' = <<[state |-> StateWithin(d_seed, d_ambient), order |-> p]>>
              /\ d_result' = subs
              /\ UNCHANGED d_error

\* a second call with the same dataset, ratios and seed, the generator having been
\* used in between
SplitDatasetAgain ==
    /\ UNCHANGED <<trainerVars, epocherVars, workerVars, inferenceVars, mixinVars, hookVars, contrastVars, captureVars, bnVars>>
    /\ d_pc = "split"
    /\ d_pc' = "again"
    /\ UNCHANGED <<splitArgs, d_error, d_result, d_drawn>>
    /\ \E amb \in AmbientStates, p \in ScanOrders(Cardinality(d_scans)) :
         /\ d_ambient' = amb
         /\ d_drawn[1].state = StateWithin(d_seed, amb) => p = d_drawn[1].order
         /\ d_again' = SubDatasets(d_scans, d_ratios, p)

NextSplit ==
    \/ SplitDataset
    \/ SplitDatasetAgain

\* C29: for ratios that sum to at most 1 split_dataset returns; it returns
\* len(ratios) + 1 sub-datasets whose scan sets are pairwise disjoint and together
\* are the scans of the dataset; a second call with the same dataset, ratios and seed
\* returns the same split.
C29_SplitPartitions ==
    /\ (SumSeq(d_ratios) <= 4 /\ d_pc # "ready") => d_pc \in {"split", "again"}
    /\ d_pc \in {"split", "again"} =>
          /\ Len(d_result) = Len(d_ratios) + 1
          /\ \A i, j \in DOMAIN d_result : i # j => d_result[i] \cap d_result[j] = {}
          /\ UNION {d_result[i] : i \in DOMAIN d_result} = d_scans
    /\ d_pc = "again" => d_again = d_result

\* three scans were split twice into a labeled and an unlabeled part that are both
\* not empty, with another generator state before the second call
C29_Witness ==
    /\ d_pc = "again"
    /\ Cardinality(d_scans) = 3
    /\ d_ratios = <<2>>
    /\ Cardinality(d_result[1]) = 1
    /\ Cardinality(d_result[2]) = 2
    /\ d_ambient = 3

\* ------------------------------------------------ disable_tracking_bn_stats
\* a module without the attribute, and the two values of the attribute
NoAttr == [has |-> FALSE, value |-> FALSE]

ModuleStates == {NoAttr} \cup {[has |-> TRUE, value |-> v] : v \in BOOLEAN}

\* the models: up to MaxModules modules
Models == UNION {[1..n -> ModuleStates] : n \in 0..MaxModules}

\* switch_attr, lines 226-228: track_running_stats ^= True
SwitchAttr(m) == IF m.has THEN [m EXCEPT !.value = (m.value # TRUE)] ELSE m

\* model.apply(switch_attr): every module of the model once
Apply(model) == [i \in DOMAIN model |-> SwitchAttr(model[i])]

BnInputs ==
    /\ b_modules \in Models

BnOutside ==
    /\ b_pc = "outside"
    /\ b_before = b_modules

\* lines 231-233: the context is entered
BnEnter ==
    /\ UNCHANGED <<trainerVars, epocherVars, workerVars, inferenceVars, mixinVars, hookVars, contrastVars, captureVars, splitVars>>
    /\ b_pc = "outside"
    /\ b_pc' = "inside"
    /\ b_before' = b_modules
    /\ b_modules' = Apply(b_modules)

\* lines 233-237: the with-body returns or raises, and the finally clause runs
BnExit ==
    /\ UNCHANGED <<trainerVars, epocherVars, workerVars, inferenceVars, mixinVars, hookVars, contrastVars, captureVars, splitVars>>
    /\ b_pc = "inside"
    /\ \E raises \in BOOLEAN : b_pc' = IF raises THEN "raised" ELSE "exited"
    /\ b_modules' = Apply(b_modules)
    /\ UNCHANGED b_before

NextBn ==
    \/ BnEnter
    \/ BnExit

\* C30: inside the disable_tracking_bn_stats context every module that has a
\* track_running_stats attribute has it False, whatever it was before the context
\* was entered.
C30_TrackingDisabledInside ==
    b_pc = "inside" =>
        \A i \in DOMAIN b_modules : b_modules[i].has => b_modules[i].value = FALSE

\* ---------------------------------------------- claims on every training epocher
\* number of times a step occurs in a trace
Occurrences(step, trace) ==
    Cardinality({k \in DOMAIN trace : trace[k] = step})

\* a completed batch: one forward pass of the network, then the loss, then zero_grad,
\* backward and step, once each and in that order
StepSequence(trace, loss) ==
    /\ \A st \in {"forward", loss, "zero_grad", "backward", "step"} :
           Occurrences(st, trace) = 1
    /\ Pos("forward", trace) < Pos(loss, trace)
    /\ Pos(loss, trace) < Pos("zero_grad", trace)
    /\ Pos("zero_grad", trace) < Pos("backward", trace)
    /\ Pos("backward", trace) < Pos("step", trace)

C28_EmptyEpochReturns ==
    /\ (e_pc \in {"done", "raised"} /\ meters["lr"] > 0 /\ ZipLen = 0) => e_pc = "done"
    /\ (c_pc \in {"done", "raised"} /\ ContrastZipLen = 0) => c_pc = "done"

\* --------------------------------------------------------- specifications
\* a component that does not run stays in one fixed initial state
IdleTrainer ==
    /\ TrainerConstructed
    /\ checkpoint = FALSE
    /\ loadable = [s \in Stages |-> FALSE]
    /\ max_epoch = [s \in Stages |-> 0]
    /\ num_batches = 0
    /\ is_master = TRUE
    /\ train_encoder = FALSE
    /\ train_decoder = FALSE

IdleEpocher ==
    /\ EpocherNew
    /\ epocher_class = "TrainEpocher"
    /\ e_num_batches = 0
    /\ feature_position = NoneArg
    /\ feature_importance = NoneArg
    /\ labeled_len = 0
    /\ unlabeled_len = 0
    /\ on_master = FALSE
    /\ detect_anomaly = FALSE
    /\ reg_weight = 0

IdleWorker ==
    /\ WorkerEntered
    /\ trainer_name = "semi"
    /\ config = {}
    /\ w_checkpoint = FALSE

IdleInference ==
    /\ InferenceConstructed
    /\ val_len = 0
    /\ save_dir_set = FALSE

IdleMixin ==
    /\ MixinConstructed
    /\ mixin = "pretrain"
    /\ m_start_epoch = 0
    /\ m_max_epoch = 0
    /\ m_on_master = FALSE
    /\ initialized_grad = FALSE
    /\ has_scheduler = FALSE
    /\ m_checkpoint = NoCheckpoint

IdleContrast ==
    /\ ContrastConstructed
    /\ c_class = "PretrainEncoderEpoch"
    /\ c_num_batches = 1
    /\ c_loader_len = 0
    /\ c_detect_anomaly = FALSE

IdleCapture ==
    /\ CaptureConstructed
    /\ f_buffer = <<>>

IdleSplit ==
    /\ SplitReady
    /\ d_scans = {}
    /\ d_ratios = <<>>
    /\ d_seed = 0
    /\ d_ambient = 2

IdleBn ==
    /\ b_modules = <<>>
    /\ BnOutside

IdleHooks ==
    /\ HooksConstructed
    /\ hook_kind = [k \in HookSlots |-> "Consistency"]
    /\ hook_name = [k \in HookSlots |-> "h1"]
    /\ hook_weight = [k \in HookSlots |-> 0]

InitTrainer ==
    /\ TrainerInputs /\ TrainerConstructed
    /\ IdleEpocher /\ IdleWorker /\ IdleInference /\ IdleMixin /\ IdleHooks /\ IdleContrast /\ IdleCapture /\ IdleSplit /\ IdleBn

InitEpocher ==
    /\ EpocherInputs /\ EpocherNew
    /\ IdleTrainer /\ IdleWorker /\ IdleInference /\ IdleMixin /\ IdleHooks /\ IdleContrast /\ IdleCapture /\ IdleSplit /\ IdleBn

InitWorker ==
    /\ WorkerInputs /\ WorkerEntered
    /\ IdleTrainer /\ IdleEpocher /\ IdleInference /\ IdleMixin /\ IdleHooks /\ IdleContrast /\ IdleCapture /\ IdleSplit /\ IdleBn

InitInference ==
    /\ InferenceInputs /\ InferenceConstructed
    /\ IdleTrainer /\ IdleEpocher /\ IdleWorker /\ IdleMixin /\ IdleHooks /\ IdleContrast /\ IdleCapture /\ IdleSplit /\ IdleBn

InitMixin ==
    /\ MixinInputs /\ MixinConstructed
    /\ IdleTrainer /\ IdleEpocher /\ IdleWorker /\ IdleInference /\ IdleHooks /\ IdleContrast /\ IdleCapture /\ IdleSplit /\ IdleBn

InitContrast ==
    /\ ContrastInputs /\ ContrastConstructed
    /\ IdleTrainer /\ IdleEpocher /\ IdleWorker /\ IdleInference /\ IdleMixin /\ IdleHooks /\ IdleCapture /\ IdleSplit /\ IdleBn

InitCapture ==
    /\ CaptureInputs /\ CaptureConstructed
    /\ IdleTrainer /\ IdleEpocher /\ IdleWorker /\ IdleInference /\ IdleMixin /\ IdleHooks /\ IdleContrast /\ IdleSplit /\ IdleBn

InitSplit ==
    /\ SplitInputs /\ SplitReady
    /\ IdleTrainer /\ IdleEpocher /\ IdleWorker /\ IdleInference /\ IdleMixin /\ IdleHooks /\ IdleContrast /\ IdleCapture /\ IdleBn

InitBn ==
    /\ BnInputs /\ BnOutside
    /\ IdleTrainer /\ IdleEpocher /\ IdleWorker /\ IdleInference /\ IdleMixin /\ IdleHooks /\ IdleContrast /\ IdleCapture /\ IdleSplit

InitHooks ==
    /\ HookInputs /\ HooksConstructed
    /\ IdleTrainer /\ IdleEpocher /\ IdleWorker /\ IdleInference /\ IdleMixin /\ IdleContrast /\ IdleCapture /\ IdleSplit /\ IdleBn

SpecTrainer == InitTrainer /\ [][NextTrainer]_vars

SpecEpocher == InitEpocher /\ [][NextEpocher]_vars

\* the epocher runs to its end: no other thread of control competes with _run
SpecEpocherFair == InitEpocher /\ [][NextEpocher]_vars /\ WF_vars(NextEpocher)

SpecWorker == InitWorker /\ [][NextWorker]_vars

SpecInference == InitInference /\ [][NextInference]_vars

SpecMixin == InitMixin /\ [][NextMixin]_vars

SpecHooks == InitHooks /\ [][NextHooks]_vars

SpecContrast == InitContrast /\ [][NextContrast]_vars

SpecCapture == InitCapture /\ [][NextCapture]_vars

SpecSplit == InitSplit /\ [][NextSplit]_vars

SpecBn == InitBn /\ [][NextBn]_vars

\* every training epocher: a TrainEpocher or one of the two pretraining epochers
InitTrainEpochers == InitEpocher \/ InitContrast

NextTrainEpochers == NextEpocher \/ NextContrast

SpecTrainEpochers == InitTrainEpochers /\ [][NextTrainEpochers]_vars

====
